---- MODULE Spec2Model ----
(***************************************************************************)
(* Verification model of the "monkey" trading-agent fleet.                 *)
(*                                                                         *)
(* Ten specifications share the variables below:                           *)
(*   SpecCoord   the AgentCoordinator (token claims) under arbitrary calls *)
(*   SpecSell    one evaluation of a holding (evaluateHoldings body,       *)
(*               evaluateSellCondition) over bounded inputs                *)
(*   Spec        the agent loop: runAllAgentCycles driving                 *)
(*               BaseAgent.runCycle, cycle after cycle as time passes      *)
(*   SpecRace    the agent loop with runSingleAgentCycle running beside it *)
(*   SpecHold    evaluateHoldings over the positions an agent can hold     *)
(*   SpecMonitor the post-buy monitor over the life of a position          *)
(*   SpecScore   a strategy scorer applied to one token context            *)
(*   SpecEntry   scanAndBuy's path of one token from the feed to the buy   *)
(*   SpecRegime  detectMarketRegime over the aggregates of one token batch *)
(*   SpecLoop    startAgentLoop, stopAgentLoop and the loops they leave    *)
(*                                                                         *)
(* Time is in milliseconds (Date.now()); PnL percentages are kept in basis *)
(* points (pnlPercent * 100), which is exactly the integer the code        *)
(* computes before dividing by 100.                                        *)
(***************************************************************************)
EXTENDS Integers, Sequences, FiniteSets, TLC

VARIABLES
    now,        \* Date.now()
    claims,     \* AgentCoordinator.claims : Map<string, TokenClaim>, as a set of [key, val] entries
    lastCall,   \* the coordinator call made by the last step, with its return value
    evalIn,     \* the holding and market presented to one evaluation; SpecScore, SpecEntry: the token
    lastEval,   \* the last evaluation of a holding: its inputs and what was decided; SpecScore: the signal
    holdings,   \* Holding table: rows [agentId, tokenAddress, amount, costBasis, acquiredAt]
    vault,      \* vault contract: token amount per <<vaultAgentId, tokenAddress>>
    trades,     \* Trade table: rows [agentId, tokenAddress, type, at]
    monitor,    \* postBuyMonitor: its three maps
    deadTokens, \* deadTokenBlacklist.blacklist
    fleet,      \* runAllAgentCycles: loop index, boughtThisCycle, results
    task,       \* the runCycle in progress of the fleet loop and of runSingleAgentCycle
    singleRuns, \* number of runSingleAgentCycle calls made
    seenPeak,   \* history: highest PnL evaluated so far for each open position
    lastBuy     \* history: the buy submitted by the last step

coordVars == <<now, claims, lastCall>>
sellVars == <<evalIn, lastEval>>
fleetVars == <<holdings, vault, trades, monitor, deadTokens, fleet, task, singleRuns,
               seenPeak, lastBuy>>
nonCoordVars == <<sellVars, fleetVars>>
vars == <<now, claims, lastCall, evalIn, lastEval, holdings, vault, trades, monitor,
          deadTokens, fleet, task, singleRuns, seenPeak, lastBuy>>

(***************************************************************************)
(* Bounds of the model                                                     *)
(***************************************************************************)
\* number of 5-minute steps the clock may advance
MaxTicks == 3
\* number of fleet cycles (runAllAgentCycles) the agent loop may start
MaxCycles == 2
\* number of runSingleAgentCycle calls that may be made
MaxSingleRuns == 1
\* number of tokens of a fleet cycle's shared feed that get through the filters
MaxFeed == 1

(***************************************************************************)
(* Generic helpers                                                         *)
(***************************************************************************)
Min(a, b) == IF a < b THEN a ELSE b
Max(a, b) == IF a > b THEN a ELSE b

\* BigInt division truncates toward zero; \div floors.
TruncDiv(a, b) == IF a >= 0 THEN a \div b ELSE -((-a) \div b)

(***************************************************************************)
(* Token addresses.  The API hands out checksummed (mixed-case) addresses; *)
(* callers may pass either spelling.  ToLower is String.toLowerCase on the *)
(* addresses of the model.                                                 *)
(***************************************************************************)
RawAddresses == {"0xAb", "0xab", "0xCd", "0xcd"}

ToLower(s) ==
    CASE s = "0xAb" -> "0xab"
      [] s = "0xCd" -> "0xcd"
      [] s = "0xEf" -> "0xef"
      [] OTHER -> s

Agents == {"a1", "a2"}

(***************************************************************************)
(* JavaScript Map, as a set of entries with unique keys                    *)
(***************************************************************************)
NoEntry == [none |-> TRUE]

MapHas(m, k) == \E e \in m : e.key = k
MapGet(m, k) == IF MapHas(m, k) THEN (CHOOSE e \in m : e.key = k).val ELSE NoEntry
MapSet(m, k, v) == {e \in m : e.key # k} \cup {[key |-> k, val |-> v]}
MapDelete(m, k) == {e \in m : e.key # k}

(***************************************************************************)
(* AgentCoordinator                                                        *)
(***************************************************************************)
DEFAULT_LOCK_DURATION == 300000
MAX_LOCK_DURATION == 600000

\* the clock advances in steps of one default lock duration (5 minutes)
TickMs == DEFAULT_LOCK_DURATION
MaxNow == MaxTicks * TickMs

\* durations a caller may ask for: the default, the cap, and one above the cap
Durations == {DEFAULT_LOCK_DURATION, MAX_LOCK_DURATION, MAX_LOCK_DURATION + TickMs}

NormalizeRaw(tokenAddress) == tokenAddress
\* const normalizedAddress = tokenAddress.toLowerCase();
NormalizeAddress(tokenAddress) == ToLower(tokenAddress)

\* cleanupExpiredClaims: drops every claim with expiresAt < now
CleanupExpiredClaims(m, t) == {e \in m : ~(e.val.expiresAt < t)}

IsClaimValidStrict(existing, t) == existing.expiresAt > t
\* if (existing.expiresAt >= now)
IsClaimValid(existing, t) == existing.expiresAt >= t

ClampDurationNone(durationMs) == durationMs
\* Math.min(durationMs, this.MAX_LOCK_DURATION)
ClampDuration(durationMs) == Min(durationMs, MAX_LOCK_DURATION)

\* claimToken without the sweep and without the expiry test: any entry blocks
ClaimTokenNoExpiry(m, t, tokenAddress, agentId, durationMs) ==
    LET normalizedAddress == NormalizeAddress(tokenAddress)
        existing == MapGet(m, normalizedAddress)
    IN  IF existing # NoEntry
        THEN IF existing.agentId = agentId
             THEN [claims |-> MapSet(m, normalizedAddress,
                                     [existing EXCEPT !.expiresAt = t + durationMs]),
                   ret |-> TRUE]
             ELSE [claims |-> m, ret |-> FALSE]
        ELSE [claims |-> MapSet(m, normalizedAddress,
                                [tokenAddress |-> normalizedAddress,
                                 agentId |-> agentId,
                                 claimedAt |-> t,
                                 expiresAt |-> t + ClampDuration(durationMs)]),
              ret |-> TRUE]

\* claimToken: the map after the call and the value returned
ClaimToken(m, t, tokenAddress, agentId, durationMs) ==
    LET normalizedAddress == NormalizeAddress(tokenAddress)
        cleaned == CleanupExpiredClaims(m, t)
        existing == MapGet(cleaned, normalizedAddress)
    IN  IF existing # NoEntry /\ IsClaimValid(existing, t)
        THEN IF existing.agentId = agentId
             THEN [claims |-> MapSet(cleaned, normalizedAddress,
                                     [existing EXCEPT !.expiresAt = t + durationMs]),
                   ret |-> TRUE]
             ELSE [claims |-> cleaned, ret |-> FALSE]
        ELSE [claims |-> MapSet(MapDelete(cleaned, normalizedAddress), normalizedAddress,
                                [tokenAddress |-> normalizedAddress,
                                 agentId |-> agentId,
                                 claimedAt |-> t,
                                 expiresAt |-> t + ClampDuration(durationMs)]),
              ret |-> TRUE]

\* releaseToken with the ownership test inverted: the holder's call deletes nothing
ReleaseTokenInverted(m, tokenAddress, agentId) ==
    LET normalizedAddress == NormalizeAddress(tokenAddress)
        existing == MapGet(m, normalizedAddress)
    IN  IF existing = NoEntry THEN m
        ELSE IF existing.agentId = agentId THEN m
        ELSE MapDelete(m, normalizedAddress)

\* releaseToken without the ownership test: any agent's call deletes the entry
ReleaseTokenAnyAgent(m, tokenAddress, agentId) ==
    LET normalizedAddress == NormalizeAddress(tokenAddress)
        existing == MapGet(m, normalizedAddress)
    IN  IF existing = NoEntry THEN m
        ELSE MapDelete(m, normalizedAddress)

\* releaseToken: only the claiming agent's call deletes the entry
ReleaseToken(m, tokenAddress, agentId) ==
    LET normalizedAddress == NormalizeAddress(tokenAddress)
        existing == MapGet(m, normalizedAddress)
    IN  IF existing = NoEntry THEN m
        ELSE IF existing.agentId # agentId THEN m
        ELSE MapDelete(m, normalizedAddress)

\* isTokenAvailable: deletes the entry it finds expired
IsTokenAvailable(m, t, tokenAddress) ==
    LET normalizedAddress == NormalizeAddress(tokenAddress)
        existing == MapGet(m, normalizedAddress)
    IN  IF existing = NoEntry THEN [claims |-> m, ret |-> TRUE]
        ELSE IF existing.expiresAt < t
             THEN [claims |-> MapDelete(m, normalizedAddress), ret |-> TRUE]
             ELSE [claims |-> m, ret |-> FALSE]

\* releaseAllByAgent
ReleaseAllByAgent(m, agentId) == {e \in m : e.val.agentId # agentId}

NoCall == [op |-> "none"]
NoEval == [exit |-> "unevaluated"]

(***************************************************************************)
(* BaseAgent: sell-side decision functions                                 *)
(* A PnL percentage p is held as the integer p * 100 (basis points).       *)
(***************************************************************************)
Strategies == {"sniper", "alpha_hunter", "diamond_hands", "swing_trader",
               "degen_ape", "volume_watcher", "trend_follower", "contrarian"}

Pct(p) == p * 100
Minutes(n) == n * 60000

STALE_HOLD_MINUTES == 90

\* Number((unrealizedPnl * 10000n) / costBasis) / 100, kept as the integer before "/ 100"
PnlBps(unrealizedPnl, costBasis) ==
    IF costBasis > 0 THEN TruncDiv(unrealizedPnl * 10000, costBasis) ELSE 0

HoldDecision == [sell |-> FALSE, reason |-> "Hold", exitType |-> "full"]
SellDecision(reason, exitType) == [sell |-> TRUE, reason |-> reason, exitType |-> exitType]

\* two profit tiers of a strategy: full at `full`, partial at `partial`
TwoTier(pnl, full, fullReason, partial, partialReason) ==
    IF pnl >= Pct(full) THEN SellDecision(fullReason, "full")
    ELSE IF pnl >= Pct(partial) THEN SellDecision(partialReason, "partial")
    ELSE HoldDecision

\* three tiers (diamond_hands, degen_ape): full, then two partial tiers
ThreeTier(pnl, full, fullReason, big, bigReason, partial, partialReason) ==
    IF pnl >= Pct(full) THEN SellDecision(fullReason, "full")
    ELSE IF pnl >= Pct(big) THEN SellDecision(bigReason, "partial")
    ELSE IF pnl >= Pct(partial) THEN SellDecision(partialReason, "partial")
    ELSE HoldDecision

\* checkStrategyProfitTargets
CheckStrategyProfitTargets(strategy, pnl) ==
    CASE strategy = "sniper" -> TwoTier(pnl, 30, "Snipe moon", 15, "Snipe profit")
      [] strategy = "alpha_hunter" -> TwoTier(pnl, 20, "Alpha moon", 12, "Alpha profit")
      [] strategy = "diamond_hands" ->
            ThreeTier(pnl, 60, "Diamond 60%", 30, "Diamond big win", 20, "Diamond partial")
      [] strategy = "swing_trader" -> TwoTier(pnl, 18, "Swing target", 8, "Swing partial")
      [] strategy = "degen_ape" ->
            ThreeTier(pnl, 60, "Degen 60%", 30, "Degen big win", 15, "Degen partial")
      [] strategy = "volume_watcher" -> TwoTier(pnl, 20, "Volume target", 12, "Volume partial")
      [] strategy = "trend_follower" -> TwoTier(pnl, 25, "Trend target", 12, "Trend partial")
      [] strategy = "contrarian" -> TwoTier(pnl, 20, "Contrarian exit", 12, "Contrarian partial")
      [] OTHER -> HoldDecision

\* const stopLoss = (sniper || alpha_hunter) ? -5 : -7
StopLoss(strategy) == IF strategy \in {"sniper", "alpha_hunter"} THEN -5 ELSE -7

\* getTrailingStopThreshold
GetTrailingStopThreshold(strategy) ==
    CASE strategy = "sniper" -> 8
      [] strategy = "alpha_hunter" -> 10
      [] strategy = "diamond_hands" -> 15
      [] strategy = "swing_trader" -> 8
      [] strategy = "degen_ape" -> 12
      [] strategy = "volume_watcher" -> 10
      [] strategy = "trend_follower" -> 10
      [] strategy = "contrarian" -> 10
      [] OTHER -> 10

TrailingArmedAlways(peakPnl) == TRUE
\* "Trailing activates once we've seen meaningful profit (>5%)": trailing.peakPnlPct > 5
TrailingArmed(peakPnl) == peakPnl > Pct(5)

\* the time-based exits, in source order; holdMs = holdDurationMinutes * 60000
TimeBasedExit(pnl, holdMs) ==
    IF holdMs >= Minutes(20) /\ pnl >= Pct(8) THEN SellDecision("Time profit", "full")
    ELSE IF holdMs >= Minutes(30) /\ pnl >= Pct(3) THEN SellDecision("Time profit", "full")
    ELSE IF holdMs >= Minutes(40) /\ pnl <= Pct(-3) THEN SellDecision("Time stop", "full")
    ELSE IF holdMs >= Minutes(60) /\ pnl <= Pct(-5) THEN SellDecision("Extended hold", "full")
    ELSE HoldDecision

\* the same function with the trailing stop tried before the profit targets
EvaluateSellConditionTrailingFirst(strategy, costBasis, unrealizedPnl, peakPnl, holdMs) ==
    IF costBasis <= 0 THEN [sell |-> FALSE, reason |-> "No cost basis", exitType |-> "full"]
    ELSE
    LET pnl == TruncDiv(unrealizedPnl * 10000, costBasis)
        profitCheck == CheckStrategyProfitTargets(strategy, pnl)
        timeCheck == TimeBasedExit(pnl, holdMs)
    IN  IF TrailingArmed(peakPnl) /\ peakPnl - pnl > Pct(GetTrailingStopThreshold(strategy))
        THEN SellDecision("Trailing stop", "full")
        ELSE IF profitCheck.sell THEN profitCheck
        ELSE IF pnl <= Pct(StopLoss(strategy)) THEN SellDecision("Stop loss", "full")
        ELSE IF timeCheck.sell THEN timeCheck
        ELSE IF holdMs >= Minutes(STALE_HOLD_MINUTES) THEN SellDecision("Stale position", "full")
        ELSE HoldDecision

\* evaluateSellCondition
EvaluateSellCondition(strategy, costBasis, unrealizedPnl, peakPnl, holdMs) ==
    IF costBasis <= 0 THEN [sell |-> FALSE, reason |-> "No cost basis", exitType |-> "full"]
    ELSE
    LET pnl == TruncDiv(unrealizedPnl * 10000, costBasis)
        profitCheck == CheckStrategyProfitTargets(strategy, pnl)
        trailingDrop == peakPnl - pnl
        timeCheck == TimeBasedExit(pnl, holdMs)
    IN  IF profitCheck.sell THEN profitCheck
        ELSE IF pnl <= Pct(StopLoss(strategy)) THEN SellDecision("Stop loss", "full")
        ELSE IF TrailingArmed(peakPnl) /\ trailingDrop > Pct(GetTrailingStopThreshold(strategy))
             THEN SellDecision("Trailing stop", "full")
        ELSE IF timeCheck.sell THEN timeCheck
        ELSE IF holdMs >= Minutes(STALE_HOLD_MINUTES) THEN SellDecision("Stale position", "full")
        ELSE HoldDecision

\* calculateSellAmount
CalculateSellAmount(totalBalance, exitType) ==
    IF exitType = "full" THEN totalBalance
    ELSE LET sellAmount == (totalBalance * 50) \div 100
             minSellAmount == totalBalance \div 4
         IN  IF sellAmount > minSellAmount THEN sellAmount ELSE minSellAmount

\* "Update trailing stop": the peak handed to evaluateSellCondition.  `prior` is the
\* entry of this.trailingStops for the token, NoEntry when the map has none.
UpdateTrailing(prior, pnl) ==
    LET start == IF prior = NoEntry THEN pnl ELSE prior.peakPnlPct
    IN  IF pnl > start THEN pnl ELSE start

(***************************************************************************)
(* PostBuyMonitor.checkMomentum                                            *)
(* The monitor keeps three maps keyed by the token address as passed in.   *)
(* A snapshot is reduced to its holderCount, the only field read back.     *)
(***************************************************************************)
NoMarket == [none |-> TRUE]

\* marketData.holder_count || (holdersData?.length ?? buyMetrics.buyHolderCount);
\* holdersLen = -1 stands for a failed getTokenHolders (null)
CurrentHolders(market, buyHolderCount) ==
    IF market.holder_count # 0 THEN market.holder_count
    ELSE IF market.holdersLen >= 0 THEN market.holdersLen
    ELSE buyHolderCount

\* priceChange = ((currentPrice - buyPrice) / buyPrice) * 100, compared without dividing
PriceChangeGE(currentPrice, buyPrice, pct) == (currentPrice - buyPrice) * 100 >= pct * buyPrice
PriceChangeLT(currentPrice, buyPrice, pct) == (currentPrice - buyPrice) * 100 < pct * buyPrice

\* analyzeMomentumTrend over the last three snapshots
AnalyzeMomentumTrend(snapshots) ==
    IF Len(snapshots) < 3 THEN "STABLE"
    ELSE LET n == Len(snapshots)
             growthRate1 == snapshots[n - 1] - snapshots[n - 2]
             growthRate2 == snapshots[n] - snapshots[n - 1]
         IN  IF growthRate2 > growthRate1 /\ growthRate2 >= 3 THEN "ACCELERATING"
             ELSE IF growthRate2 < growthRate1 /\ growthRate2 <= 1 THEN "DYING"
             ELSE "STABLE"

MomentumResult(action, snapshots, two, five, dead) ==
    [action |-> action, snapshots |-> snapshots, twoMinCheckDone |-> two,
     fiveMinCheckDone |-> five, dead |-> dead]

\* checkMomentum for one token.  `snaps` is this.snapshots.get(tokenAddress) || [],
\* `two` / `five` the token's checkpoint flags; `dead` tells that the token is
\* handed to deadTokenBlacklist.add.
CheckMomentum(elapsedMs, market, buyPrice, buyHolderCount, snaps, two, five) ==
    IF market = NoMarket THEN MomentumResult("HOLD", snaps, two, five, FALSE)
    ELSE
    LET currentHolders == CurrentHolders(market, buyHolderCount)
        snapshots == Append(snaps, currentHolders)
        holderGrowth == currentHolders - buyHolderCount
        ge(pct) == PriceChangeGE(market.price, buyPrice, pct)
        lt(pct) == PriceChangeLT(market.price, buyPrice, pct)
        early == elapsedMs >= 900 * 1000 /\ ~two
        two1 == two \/ early
        mid == elapsedMs >= 1800 * 1000 /\ ~five
        five1 == five \/ mid
        momentum == AnalyzeMomentumTrend(snapshots)
    IN  IF early /\ holderGrowth >= 30 /\ ge(15)
            THEN MomentumResult("SELL_DEMAND_SPIKE", snapshots, two1, five, FALSE)
        ELSE IF early /\ holderGrowth >= 15 /\ ge(10)
            THEN MomentumResult("SELL_DEMAND_SPIKE", snapshots, two1, five, FALSE)
        ELSE IF early /\ holderGrowth <= 4 /\ lt(-3)
            THEN MomentumResult("SELL_DEAD_TOKEN", snapshots, two1, five, TRUE)
        ELSE IF mid /\ holderGrowth >= 50 /\ ge(25)
            THEN MomentumResult("SELL_DEMAND_SPIKE", snapshots, two1, five1, FALSE)
        ELSE IF mid /\ holderGrowth <= 7 /\ lt(-2)
            THEN MomentumResult("SELL_MOMENTUM_DYING", snapshots, two1, five1, TRUE)
        ELSE IF elapsedMs >= 600 * 1000 /\ Len(snapshots) >= 3
                /\ momentum = "ACCELERATING" /\ ge(20)
            THEN MomentumResult("SELL_DEMAND_SPIKE", snapshots, two1, five1, FALSE)
        ELSE IF elapsedMs >= 600 * 1000 /\ Len(snapshots) >= 3
                /\ momentum = "DYING" /\ lt(-5) /\ elapsedMs >= 1800 * 1000
            THEN MomentumResult("SELL_MOMENTUM_DYING", snapshots, two1, five1, FALSE)
        ELSE MomentumResult("HOLD", snapshots, two1, five1, FALSE)

(***************************************************************************)
(* BaseAgent.evaluateHoldings: the decision taken for one holding once its *)
(* balance and sell quote are known.                                       *)
(*   e.strategy, e.balance, e.costBasis, e.monValue     the position       *)
(*   e.holdMs       Date.now() - acquiredAt at the hold-duration read      *)
(*   e.latencyMs    time that passes until checkMomentum reads the clock   *)
(*   e.hasSignal    the first buy Trade carries signal data                *)
(*   e.market, e.buyPrice, e.buyHolderCount             momentum inputs    *)
(*   e.snapshots, e.twoMinCheckDone, e.fiveMinCheckDone monitor state      *)
(*   e.prior        this.trailingStops.get(tokenKey), NoEntry if absent    *)
(***************************************************************************)
NoMomentum(e) ==
    MomentumResult("NONE", e.snapshots, e.twoMinCheckDone, e.fiveMinCheckDone, FALSE)

\* the post-buy block run at every evaluation, whatever the age of the position
PostBuyCheckAtAnyAge(e) ==
    IF e.hasSignal
    THEN CheckMomentum(e.holdMs + e.latencyMs, e.market, e.buyPrice, e.buyHolderCount,
                       e.snapshots, e.twoMinCheckDone, e.fiveMinCheckDone)
    ELSE NoMomentum(e)

\* the post-buy block runs only while holdDurationMinutes <= 10
PostBuyCheck(e) ==
    IF e.holdMs <= Minutes(10) /\ e.hasSignal
    THEN CheckMomentum(e.holdMs + e.latencyMs, e.market, e.buyPrice, e.buyHolderCount,
                       e.snapshots, e.twoMinCheckDone, e.fiveMinCheckDone)
    ELSE NoMomentum(e)

EvaluateHolding(e) ==
    LET unrealizedPnl == e.monValue - e.costBasis
        pnl == PnlBps(unrealizedPnl, e.costBasis)
        momentum == PostBuyCheck(e)
        peak == UpdateTrailing(e.prior, pnl)
        decision == EvaluateSellCondition(e.strategy, e.costBasis, unrealizedPnl, peak, e.holdMs)
        sellAmount == CalculateSellAmount(e.balance, decision.exitType)
    IN  IF momentum.action \notin {"NONE", "HOLD"}
        THEN [in |-> e, pnl |-> pnl, momentum |-> momentum, exit |-> "momentum",
              trailing |-> e.prior, decision |-> HoldDecision,
              sellAmount |-> e.balance, isFullExit |-> TRUE]
        ELSE [in |-> e, pnl |-> pnl, momentum |-> momentum,
              exit |-> IF decision.sell THEN "sell" ELSE "none",
              trailing |-> [peakPnlPct |-> peak], decision |-> decision,
              sellAmount |-> IF decision.sell THEN sellAmount ELSE 0,
              isFullExit |-> decision.sell /\ sellAmount = e.balance]

(***************************************************************************)
(* The fleet: agents, stores and runner state                              *)
(***************************************************************************)
\* prisma.agent.findMany({ where: { isActive: true }, orderBy: { createdAt: "asc" } })
AgentOrder == <<"a1", "a2">>

\* the two strategies whose time window is enabled
StrategyOf(agentId) == IF agentId = "a1" THEN "volume_watcher" ELSE "contrarian"

\* index of the agent in the list the runner iterates: the vault agent id
VaultAgentId(agentId) == (CHOOSE i \in 1..Len(AgentOrder) : AgentOrder[i] = agentId) - 1

\* token ids as the token feed spells them
TokenOrder == <<"0xAb", "0xCd", "0xEf">>
FleetTokens == {TokenOrder[i] : i \in 1..Len(TokenOrder)}

\* amounts of MON in thousandths
MIN_TRADE_AMOUNT == 500
MAX_HOLDINGS_PER_AGENT == 2

Slots == {"fleet", "single"}
Idle == [pc |-> "idle"]
NoBuy == [op |-> "none"]

\* a BaseAgent just constructed, about to run runCycle
NewTask(agentId) ==
    [pc |-> "begin", agent |-> agentId, trailingStops |-> {}, monBalance |-> 0,
     queue |-> <<>>, heldCount |-> 0, blacklist |-> {}, chosen |-> "none", tradeAmount |-> 0]

FleetIdle ==
    [running |-> FALSE, returned |-> FALSE, i |-> 0, feed |-> {}, boughtThisCycle |-> {},
     results |-> <<>>, attempted |-> {}, buys |-> {}, ran |-> {}, cycle |-> 0]

EmptyMonitor == [snapshots |-> {}, twoMinCheckDone |-> {}, fiveMinCheckDone |-> {}]

\* the stores and the runner before the first cycle
FleetInit ==
    /\ holdings = {}
    /\ vault = [k \in (0..(Len(AgentOrder) - 1)) \X FleetTokens |-> 0]
    /\ trades = {}
    /\ monitor = EmptyMonitor
    /\ deadTokens = {}
    /\ fleet = FleetIdle
    /\ task = [s \in Slots |-> Idle]
    /\ singleRuns = 0
    /\ seenPeak = {}
    /\ lastBuy = NoBuy

(***************************************************************************)
(* SpecCoord: any agent may call any coordinator operation at any time     *)
(***************************************************************************)
CoordInit ==
    /\ now = 0
    /\ claims = {}
    /\ lastCall = NoCall
    /\ evalIn = NoEntry
    /\ lastEval = NoEval
    /\ FleetInit

\* the agent whose releaseToken of this token, as its holder, was the call before
\* this one ("none" if the call before was anything else)
ReleasedJustBefore(tokenAddress) ==
    IF /\ lastCall.op = "releaseToken"
       /\ ToLower(lastCall.tokenAddress) = ToLower(tokenAddress)
       /\ lastCall.prev # NoEntry
       /\ lastCall.prev.agentId = lastCall.agentId
    THEN lastCall.agentId ELSE "none"

CoordClaim(tokenAddress, agentId, durationMs) ==
    LET r == ClaimToken(claims, now, tokenAddress, agentId, durationMs)
    IN  /\ claims' = r.claims
        /\ lastCall' = [op |-> "claimToken", tokenAddress |-> tokenAddress,
                        agentId |-> agentId, durationMs |-> durationMs, at |-> now,
                        prev |-> MapGet(claims, ToLower(tokenAddress)),
                        ret |-> r.ret,
                        afterReleaseBy |-> ReleasedJustBefore(tokenAddress)]
        /\ UNCHANGED <<now, nonCoordVars>>

CoordRelease(tokenAddress, agentId) ==
    /\ claims' = ReleaseToken(claims, tokenAddress, agentId)
    /\ lastCall' = [op |-> "releaseToken", tokenAddress |-> tokenAddress,
                    agentId |-> agentId, at |-> now,
                    prev |-> MapGet(claims, ToLower(tokenAddress))]
    /\ UNCHANGED <<now, nonCoordVars>>

CoordIsAvailable(tokenAddress) ==
    LET r == IsTokenAvailable(claims, now, tokenAddress)
    IN  /\ claims' = r.claims
        /\ lastCall' = [op |-> "isTokenAvailable", tokenAddress |-> tokenAddress,
                        at |-> now, ret |-> r.ret]
        /\ UNCHANGED <<now, nonCoordVars>>

\* getAllClaims / getStats: sweep, then read
CoordGetAllClaims ==
    /\ claims' = CleanupExpiredClaims(claims, now)
    /\ lastCall' = [op |-> "getAllClaims", at |-> now]
    /\ UNCHANGED <<now, nonCoordVars>>

CoordReleaseAllByAgent(agentId) ==
    /\ claims' = ReleaseAllByAgent(claims, agentId)
    /\ lastCall' = [op |-> "releaseAllByAgent", agentId |-> agentId, at |-> now,
                    ret |-> Cardinality({e \in claims : e.val.agentId = agentId})]
    /\ UNCHANGED <<now, nonCoordVars>>

\* reset (for testing)
CoordReset ==
    /\ claims # {}
    /\ claims' = {}
    /\ lastCall' = [op |-> "reset", at |-> now]
    /\ UNCHANGED <<now, nonCoordVars>>

\* time passes
CoordTick ==
    /\ now < MaxNow
    /\ now' = now + TickMs
    /\ lastCall' = NoCall
    /\ UNCHANGED <<claims, nonCoordVars>>

CoordNext ==
    \/ \E a \in RawAddresses, g \in Agents, d \in Durations : CoordClaim(a, g, d)
    \/ \E a \in RawAddresses, g \in Agents : CoordRelease(a, g)
    \/ \E a \in RawAddresses : CoordIsAvailable(a)
    \/ CoordGetAllClaims
    \/ \E g \in Agents : CoordReleaseAllByAgent(g)
    \/ CoordReset
    \/ CoordTick

SpecCoord == CoordInit /\ [][CoordNext]_vars

(***************************************************************************)
(* SpecSell: one evaluation of a holding over bounded inputs               *)
(***************************************************************************)
\* PnL values (basis points) on and around every threshold of the sell rules
SellPnls == {-1200, -700, -500, -450, -300, 0, 300, 800, 1200, 1500, 2000, 3000, 6000}
SellCostBases == {0, 10000}
\* hold durations (minutes) on every boundary of the time rules
SellHoldMinutes == {0, 10, 20, 30, 40, 60, 90}
SellPriors == {NoEntry} \cup {[peakPnlPct |-> p] : p \in {0, 400, 600, 1100, 4000}}

\* what the monitor and the market may look like when the post-buy block runs:
\* no market data; holders accelerating with price +20%; holders stalling with
\* price -6%; a first buy Trade without signal data
MonitorInput(latencyMs, hasSignal, market, snapshots) ==
    [latencyMs |-> latencyMs, hasSignal |-> hasSignal, market |-> market,
     snapshots |-> snapshots, twoMinCheckDone |-> FALSE, fiveMinCheckDone |-> FALSE]

MomentumInputs ==
    { MonitorInput(0, TRUE, NoMarket, <<30>>),
      MonitorInput(0, TRUE, [price |-> 120, holder_count |-> 33, holdersLen |-> -1],
                   <<30, 30>>),
      MonitorInput(1000, TRUE, [price |-> 94, holder_count |-> 0, holdersLen |-> 32],
                   <<30, 32>>),
      MonitorInput(0, FALSE, NoMarket, <<30>>) }

EvalInput(strategy, balance, costBasis, monValue, holdMs, m, prior) ==
    [strategy |-> strategy, balance |-> balance, costBasis |-> costBasis,
     monValue |-> monValue, holdMs |-> holdMs, latencyMs |-> m.latencyMs,
     hasSignal |-> m.hasSignal, market |-> m.market, buyPrice |-> 100,
     buyHolderCount |-> 30, snapshots |-> m.snapshots,
     twoMinCheckDone |-> m.twoMinCheckDone, fiveMinCheckDone |-> m.fiveMinCheckDone,
     prior |-> prior]

SellInputs ==
    { EvalInput(s, 1000, c, 10000 + p, Minutes(h), m, t) :
        s \in Strategies, c \in SellCostBases, p \in SellPnls,
        h \in SellHoldMinutes, m \in MomentumInputs, t \in SellPriors }

SellInit ==
    /\ now = 0
    /\ claims = {}
    /\ lastCall = NoCall
    /\ evalIn \in SellInputs
    /\ lastEval = NoEval
    /\ FleetInit

SellEvaluate ==
    /\ lastEval = NoEval
    /\ evalIn # NoEntry
    /\ lastEval' = EvaluateHolding(evalIn)
    /\ UNCHANGED <<coordVars, evalIn, fleetVars>>

SellNext == SellEvaluate

SpecSell == SellInit /\ [][SellNext]_vars

(***************************************************************************)
(* The fleet.  runAllAgentCycles runs the agents one after another;        *)
(* runSingleAgentCycle may run one agent at the same time.  A runCycle is  *)
(* cut at awaits: begin, one step per holding evaluated, the holdings      *)
(* read of scanAndBuy, the claim, the buy.  Chain calls (vault reads,      *)
(* quotes, buys, sells) may fail; database writes succeed.  The one way   *)
(* an exception leaves runCycle is a failure of the error log in its own   *)
(* catch; every other log call returns.                                    *)
(***************************************************************************)
\* vault balances read at the start of a cycle, and position sizes
\* (getRecommendedPositionSize is between 2 and 15 MON)
MonBalances == {0, 10000}
TradeAmounts == {2000, 15000}
\* learning profile: calculateMaxPositions returns 5, 3 or 2
MaxPositionsValues == {2, 3, 5}

\* what a quote and the token's market data may be at one evaluation:
\* PnL in percent of cost, price relative to a buy price of 100
Scenario(quoteOk, pct, market) == [quoteOk |-> quoteOk, pct |-> pct, market |-> market]
Scenarios ==
    { Scenario(FALSE, 0, NoMarket),
      Scenario(TRUE, -10, NoMarket),
      Scenario(TRUE, 0, [price |-> 100, holder_count |-> 30, holdersLen |-> -1]),
      Scenario(TRUE, 11, [price |-> 120, holder_count |-> 33, holdersLen |-> -1]) }

\* sharedRecentTokens, reduced to the tokens that can become candidates
Feeds == {S \in SUBSET FleetTokens : Cardinality(S) = MaxFeed}

RowsOf(agentId) == {h \in holdings : h.agentId = agentId}

\* prisma.holding.findMany({ where: { agentId } }) as the list evaluateHoldings walks
HoldingsList(agentId) ==
    LET toks == SelectSeq(TokenOrder,
                          LAMBDA tok : \E h \in RowsOf(agentId) : h.tokenAddress = tok)
    IN  [i \in 1..Len(toks) |-> CHOOSE h \in RowsOf(agentId) : h.tokenAddress = toks[i]]

DeleteRow(rows, agentId, tokenAddress) ==
    {h \in rows : ~(h.agentId = agentId /\ h.tokenAddress = tokenAddress)}

UpdateRow(rows, agentId, tokenAddress, field, value) ==
    {IF h.agentId = agentId /\ h.tokenAddress = tokenAddress
     THEN [h EXCEPT ![field] = value] ELSE h : h \in rows}

\* the loop without try/catch: an exception ends runAllAgentCycles
AfterRunCycleThrewUncaught(f, agentId) ==
    [f EXCEPT !.running = FALSE, !.returned = TRUE]

\* catch (error) { results.push({ ..., status: "failed" }) }, then the next agent
AfterRunCycleThrew(f, agentId) ==
    [f EXCEPT !.results = Append(@, [agentName |-> agentId, status |-> "failed"]),
              !.i = @ + 1,
              !.running = f.i < Len(AgentOrder),
              !.returned = ~(f.i < Len(AgentOrder))]

\* runCycle returned: its buys join boughtThisCycle, results.push "completed"
AfterRunCycle(f, agentId, bought) ==
    [f EXCEPT !.boughtThisCycle = @ \cup {ToLower(b) : b \in bought},
              !.results = Append(@, [agentName |-> agentId, status |-> "completed"]),
              !.i = @ + 1,
              !.running = f.i < Len(AgentOrder),
              !.returned = ~(f.i < Len(AgentOrder))]

\* new BaseAgent(agents[i].id, i, ...) for the agent the loop has reached
StartAgent(f) == IF f.running THEN [f EXCEPT !.ran = @ \cup {AgentOrder[f.i]}] ELSE f

\* the runCycle of `slot` goes on as t
Continue(slot, f, t) ==
    /\ fleet' = f
    /\ task' = [task EXCEPT ![slot] = t]

\* the runCycle of `slot` ends, having returned `bought` or thrown
Finish(slot, f, bought, threw) ==
    IF slot = "fleet"
    THEN LET f1 == StartAgent(IF threw THEN AfterRunCycleThrew(f, task[slot].agent)
                              ELSE AfterRunCycle(f, task[slot].agent, bought))
         IN  /\ fleet' = f1
             /\ task' = [task EXCEPT ![slot] =
                            IF f1.running THEN NewTask(AgentOrder[f1.i]) ELSE Idle]
    ELSE /\ fleet' = f
         /\ task' = [task EXCEPT ![slot] = Idle]

\* agent-loop: the next runAllAgentCycles starts
FleetStart ==
    /\ ~fleet.running /\ ~fleet.returned
    /\ fleet.cycle < MaxCycles
    /\ \E feed \in Feeds :
          fleet' = StartAgent([FleetIdle EXCEPT !.running = TRUE, !.i = 1, !.feed = feed,
                                                !.cycle = fleet.cycle + 1])
    /\ task' = [task EXCEPT !["fleet"] = NewTask(AgentOrder[1])]
    /\ lastCall' = NoCall /\ lastEval' = NoEval /\ lastBuy' = NoBuy
    /\ UNCHANGED <<now, claims, evalIn, holdings, vault, trades, monitor, deadTokens,
                   singleRuns, seenPeak>>

\* agent-loop: runAllAgentCycles has returned (or thrown); its results are logged and
\* the loop goes to sleep
LoopReport ==
    /\ fleet.returned
    /\ fleet' = [FleetIdle EXCEPT !.cycle = fleet.cycle]
    /\ lastCall' = NoCall /\ lastEval' = NoEval /\ lastBuy' = NoBuy
    /\ UNCHANGED <<now, claims, evalIn, holdings, vault, trades, monitor, deadTokens,
                   task, singleRuns, seenPeak>>

\* runSingleAgentCycle(agentId)
SingleStart(agentId) ==
    /\ task["single"] = Idle
    /\ singleRuns < MaxSingleRuns
    /\ singleRuns' = singleRuns + 1
    /\ task' = [task EXCEPT !["single"] = NewTask(agentId)]
    /\ lastCall' = NoCall /\ lastEval' = NoEval /\ lastBuy' = NoBuy
    /\ UNCHANGED <<now, claims, evalIn, holdings, vault, trades, monitor, deadTokens,
                   fleet, seenPeak>>

\* runCycle calling scanAndBuy first: the holdings read are left unevaluated
AfterCycleBeginScanFirst(t, queue) == [t EXCEPT !.queue = queue, !.pc = "scan"]

\* runCycle once the balance is read and synced: evaluateHoldings is called, and
\* scanAndBuy only when it has returned
AfterCycleBegin(t, queue) ==
    [t EXCEPT !.queue = queue, !.pc = IF queue = <<>> THEN "scan" ELSE "evaluate"]

\* runCycle up to evaluateHoldings' findMany.  "caught": a failure runCycle's own
\* catch logs; "thrown": that log write fails too and the exception leaves runCycle.
\* The vault balance read here is first used by scanAndBuy and is drawn there.
CycleBegin(slot) ==
    LET t == task[slot]
        queue == HoldingsList(t.agent)
    IN  /\ t.pc = "begin"
        /\ \E outcome \in {"ok", "caught", "thrown"} :
              CASE outcome = "ok" ->
                      Continue(slot, fleet, AfterCycleBegin(t, queue))
                [] outcome = "caught" -> Finish(slot, fleet, {}, FALSE)
                [] outcome = "thrown" -> Finish(slot, fleet, {}, TRUE)
        /\ lastCall' = NoCall /\ lastEval' = NoEval /\ lastBuy' = NoBuy
        /\ UNCHANGED <<now, claims, evalIn, holdings, vault, trades, monitor, deadTokens,
                       singleRuns, seenPeak>>

\* postBuyMonitor.stopMonitoring(tokenAddress)
StopMonitoring(m, tokenAddress) ==
    [snapshots |-> MapDelete(m.snapshots, tokenAddress),
     twoMinCheckDone |-> MapDelete(m.twoMinCheckDone, tokenAddress),
     fiveMinCheckDone |-> MapDelete(m.fiveMinCheckDone, tokenAddress)]

\* the monitor after checkMomentum returned r for tokenAddress
MonitorAfter(m, tokenAddress, r) ==
    IF r.action = "NONE" THEN m
    ELSE [snapshots |-> IF r.snapshots = <<>> THEN m.snapshots
                        ELSE MapSet(m.snapshots, tokenAddress, r.snapshots),
          twoMinCheckDone |-> IF r.twoMinCheckDone
                              THEN MapSet(m.twoMinCheckDone, tokenAddress, TRUE)
                              ELSE m.twoMinCheckDone,
          fiveMinCheckDone |-> IF r.fiveMinCheckDone
                               THEN MapSet(m.fiveMinCheckDone, tokenAddress, TRUE)
                               ELSE m.fiveMinCheckDone]

\* the monitor's state for a token, as the inputs of one evaluation
MonitorInputOf(m, tokenAddress, market, hasSignal) ==
    [latencyMs |-> 0, hasSignal |-> hasSignal, market |-> market,
     snapshots |-> IF MapHas(m.snapshots, tokenAddress)
                   THEN MapGet(m.snapshots, tokenAddress) ELSE <<>>,
     twoMinCheckDone |-> MapHas(m.twoMinCheckDone, tokenAddress),
     fiveMinCheckDone |-> MapHas(m.fiveMinCheckDone, tokenAddress)]

\* executeSell for holding row h of agent a, on a chain where the sale goes through
\* (sold) or reverts; st carries the stores as evaluateHoldings left them.  The cost
\* the sale is charged with (the Trade row's pnl is amountOut less this cost) is kept
\* with the record of the evaluation.
ExecuteSell(st, a, h, sellAmount, costBasis, isFullExit, sold, totalReadOk) ==
    LET k == <<VaultAgentId(a), h.tokenAddress>>
        vault1 == [st.vault EXCEPT ![k] = @ - sellAmount]
        totalBalance == IF totalReadOk THEN vault1[k] + sellAmount ELSE sellAmount
        proportionalCost == IF totalBalance > 0
                            THEN (costBasis * sellAmount) \div totalBalance
                            ELSE costBasis
        remainingCost == costBasis - proportionalCost
        sell == [agentId |-> a, tokenAddress |-> h.tokenAddress, type |-> "sell",
                 at |-> now]
        realized == [proportionalCost |-> proportionalCost]
    IN  IF ~sold THEN st
        ELSE IF isFullExit
        THEN [st EXCEPT !.vault = vault1,
                        !.trades = @ \cup {sell},
                        !.holdings = DeleteRow(@, a, h.tokenAddress),
                        !.trailingStops = MapDelete(@, ToLower(h.tokenAddress)),
                        !.monitor = StopMonitoring(@, h.tokenAddress),
                        !.seenPeak = MapDelete(@, <<a, ToLower(h.tokenAddress)>>),
                        !.eval = @ @@ realized]
        ELSE [st EXCEPT !.vault = vault1,
                        !.trades = @ \cup {sell},
                        !.holdings = UpdateRow(@, a, h.tokenAddress, "costBasis",
                                               IF remainingCost > 0 THEN remainingCost ELSE 0),
                        !.eval = @ @@ realized]

\* the stores and the instance's trailing map, as one record
Stores(t) ==
    [holdings |-> holdings, vault |-> vault, trades |-> trades, monitor |-> monitor,
     deadTokens |-> deadTokens, trailingStops |-> t.trailingStops, seenPeak |-> seenPeak,
     eval |-> NoEval]

\* highest PnL evaluated for the position so far, this evaluation included
SeenPeak(a, key, pnl) ==
    IF MapHas(seenPeak, <<a, key>>) THEN Max(MapGet(seenPeak, <<a, key>>), pnl) ELSE pnl

\* the inputs of the evaluation of row h by runCycle t, with balance and quote known
EvalInputOf(t, h, vaultReadOk, balance, sc, via, cycle) ==
    [agentId |-> t.agent, tokenAddress |-> h.tokenAddress, via |-> via, cycle |-> cycle,
     vaultReadOk |-> vaultReadOk, dbAmount |-> h.amount,
     vaultAmount |-> vault[<<VaultAgentId(t.agent), h.tokenAddress>>]] @@
    EvalInput(StrategyOf(t.agent), balance, h.costBasis,
              h.costBasis + (h.costBasis * sc.pct) \div 100, now - h.acquiredAt,
              MonitorInputOf(monitor, h.tokenAddress, sc.market,
                             \E tr \in trades : /\ tr.agentId = t.agent
                                                /\ tr.tokenAddress = h.tokenAddress
                                                /\ tr.type = "buy"),
              MapGet(t.trailingStops, ToLower(h.tokenAddress)))

\* evaluateHoldings from the holding.update to the sell decision: evaluation o recorded
Recorded(st, a, tok, balance, o, seen) ==
    [st EXCEPT
        !.holdings = UpdateRow(@, a, tok, "amount", balance),
        !.monitor = MonitorAfter(@, tok, o.momentum),
        !.deadTokens = IF o.momentum.dead
                       THEN MapSet(@, ToLower(tok), [detectedAt |-> now]) ELSE @,
        !.trailingStops = IF o.exit = "momentum" THEN @
                          ELSE MapSet(@, ToLower(tok), o.trailing),
        !.seenPeak = MapSet(@, <<a, ToLower(tok)>>, seen),
        !.eval = [seenPeak |-> seen] @@ o]

\* the exit decided by evaluation o, if any, carried out
Decided(st, a, h, o, sold, totalReadOk) ==
    IF o.exit = "none" THEN st
    ELSE ExecuteSell(st, a, h, o.sellAmount, h.costBasis, o.isFullExit,
                     sold /\ st.vault[<<VaultAgentId(a), h.tokenAddress>>] >= o.sellAmount,
                     totalReadOk)

\* the holding evaluated: o = EvaluateHolding of its inputs
Evaluated(st, a, h, balance, o, sellOk, totalReadOk) ==
    Decided(Recorded(st, a, h.tokenAddress, balance, o,
                     SeenPeak(a, ToLower(h.tokenAddress), o.pnl)),
            a, h, o, sellOk, totalReadOk)

\* the loop body once the vault balance is read
EvaluateWithBalance(st, t, h, vaultReadOk, balance, sc, sellOk, totalReadOk, cycle, via) ==
    IF balance <= 0
    THEN [st EXCEPT !.holdings = DeleteRow(@, t.agent, h.tokenAddress),
                    !.trailingStops = MapDelete(@, ToLower(h.tokenAddress)),
                    !.seenPeak = MapDelete(@, <<t.agent, ToLower(h.tokenAddress)>>)]
    ELSE IF ~sc.quoteOk
            \/ ~\E x \in holdings : x.agentId = t.agent /\ x.tokenAddress = h.tokenAddress
    THEN st
    ELSE Evaluated(st, t.agent, h, balance,
                   EvaluateHolding(EvalInputOf(t, h, vaultReadOk, balance, sc, via,
                                               cycle)),
                   sellOk, totalReadOk)

\* the balance taken from the Holding row whatever the vault says
ReadBalanceFromRow(vaultReadOk, vaultAmount, dbAmount) == dbAmount

\* the balance evaluateHoldings works with: the vault's amount, or the row's amount
\* when the vault read fails
ReadBalance(vaultReadOk, vaultAmount, dbAmount) ==
    IF vaultReadOk THEN vaultAmount ELSE dbAmount

\* one pass of evaluateHoldings' loop body for row h (read at the start of the
\* pass) by the runCycle t: the stores, the instance's trailing map and the record
\* of the evaluation afterwards.  A failed vault read falls back on the row's amount;
\* a failed quote, or a row that is gone when it is updated, ends the pass.
EvaluateOne(t, h, vaultReadOk, sc, sellOk, totalReadOk, cycle, via) ==
    EvaluateWithBalance(Stores(t), t, h, vaultReadOk,
                        ReadBalance(vaultReadOk,
                                    vault[<<VaultAgentId(t.agent), h.tokenAddress>>],
                                    h.amount),
                        sc, sellOk, totalReadOk, cycle, via)

CycleOf(slot) == IF slot = "fleet" THEN fleet.cycle ELSE 0

\* the runCycle t at the next holding of its list, or past the list.  The instance's
\* trailing map is not read again once the list is done, and is not carried further.
AfterEvaluation(t, trailingStops) ==
    [t EXCEPT !.trailingStops = IF Tail(t.queue) = <<>> THEN {} ELSE trailingStops,
              !.queue = Tail(@),
              !.pc = IF Tail(t.queue) = <<>> THEN "scan" ELSE "evaluate"]

\* the stores take the values of r
StoresBecome(slot, r) ==
    /\ holdings' = r.holdings
    /\ vault' = r.vault
    /\ trades' = r.trades
    /\ monitor' = r.monitor
    /\ deadTokens' = r.deadTokens
    /\ seenPeak' = r.seenPeak
    /\ lastEval' = r.eval
    /\ task' = [task EXCEPT ![slot] = AfterEvaluation(task[slot], r.trailingStops)]

\* evaluateHoldings: the next holding of the list, with the quote and the market
\* data drawn from `scenarios`
EvaluateStepOver(slot, scenarios) ==
    /\ task[slot].pc = "evaluate"
    /\ \E vaultReadOk \in BOOLEAN, sc \in scenarios, sellOk \in BOOLEAN,
          totalReadOk \in BOOLEAN :
          StoresBecome(slot, EvaluateOne(task[slot], Head(task[slot].queue), vaultReadOk,
                                         sc, sellOk, totalReadOk, CycleOf(slot), slot))
    /\ lastCall' = NoCall /\ lastBuy' = NoBuy
    /\ UNCHANGED <<now, claims, evalIn, fleet, singleRuns>>

EvaluateStep(slot) == EvaluateStepOver(slot, Scenarios)

\* scanAndBuy without the runner's boughtThisCycle
CrossAgentBlacklistUnused(slot, f) == {}

\* crossAgentBlacklist as runCycle receives it: the runner's boughtThisCycle in a
\* fleet cycle, nothing in runSingleAgentCycle
CrossAgentBlacklist(slot, f) == IF slot = "fleet" THEN f.boughtThisCycle ELSE {}

\* own sells of the last 30 minutes
RecentSells(agentId) ==
    {ToLower(tr.tokenAddress) :
        tr \in {x \in trades : x.agentId = agentId /\ x.type = "sell"
                                /\ x.at >= now - Minutes(30)}}

\* deadTokenBlacklist.cleanup
DeadTokenCleanup(m, t) == {e \in m : ~(t - e.val.detectedAt > Minutes(60))}

\* scanAndBuy up to the blacklist: balance check, holdings count, blacklist
ScanBegin(slot) ==
    LET t == task[slot]
        rows == RowsOf(t.agent)
    IN  /\ t.pc = "scan"
        /\ \E monBalance \in MonBalances :
              IF monBalance < MIN_TRADE_AMOUNT
                    \/ Cardinality(rows) >= MAX_HOLDINGS_PER_AGENT
              THEN Finish(slot, fleet, {}, FALSE)
              ELSE Continue(slot, fleet,
                       [t EXCEPT !.pc = "decide",
                                 !.monBalance = monBalance,
                                 !.heldCount = Cardinality(rows),
                                 !.blacklist = {ToLower(h.tokenAddress) : h \in rows}
                                               \cup CrossAgentBlacklist(slot, fleet)
                                               \cup RecentSells(t.agent)])
        /\ lastCall' = NoCall /\ lastEval' = NoEval /\ lastBuy' = NoBuy
        /\ UNCHANGED <<now, claims, evalIn, holdings, vault, trades, monitor, deadTokens,
                       singleRuns, seenPeak>>

\* scanAndBuy from the token loop to the buy: a token outside the blacklists is
\* chosen (or none), the learning check, claimToken, the balance check
ScanDecide(slot) ==
    LET t == task[slot]
        dead == DeadTokenCleanup(deadTokens, now)
    IN  /\ t.pc = "decide"
        /\ deadTokens' = dead
        /\ \/ /\ Finish(slot, fleet, {}, FALSE)
              /\ lastCall' = NoCall
              /\ UNCHANGED claims
           \/ \E pick \in (IF slot = "fleet" THEN fleet.feed ELSE FleetTokens),
                 maxPositions \in MaxPositionsValues,
                 tradeAmount \in TradeAmounts :
                 LET r == ClaimToken(claims, now, pick, t.agent, 300000)
                     f == IF slot = "fleet"
                          THEN [fleet EXCEPT !.attempted =
                                   @ \cup {[agentId |-> t.agent, token |-> ToLower(pick)]}]
                          ELSE fleet
                 IN  /\ ToLower(pick) \notin t.blacklist
                     /\ ~MapHas(dead, ToLower(pick))
                     /\ t.heldCount < maxPositions
                     /\ lastCall' = [op |-> "claimToken", tokenAddress |-> pick,
                                     agentId |-> t.agent, durationMs |-> 300000,
                                     at |-> now, prev |-> MapGet(claims, ToLower(pick)),
                                     ret |-> r.ret, via |-> slot,
                                     firstAttempt |->
                                        ~\E x \in fleet.attempted : x.token = ToLower(pick)]
                     /\ IF ~r.ret
                        THEN claims' = r.claims /\ Finish(slot, f, {}, FALSE)
                        ELSE IF tradeAmount > t.monBalance
                        THEN /\ claims' = ReleaseToken(r.claims, pick, t.agent)
                             /\ Finish(slot, f, {}, FALSE)
                        ELSE /\ claims' = r.claims
                             /\ Continue(slot, f, [t EXCEPT !.pc = "buy", !.chosen = pick,
                                                            !.tradeAmount = tradeAmount])
        /\ lastEval' = NoEval /\ lastBuy' = NoBuy
        /\ UNCHANGED <<now, evalIn, holdings, vault, trades, monitor, singleRuns, seenPeak>>

\* holding.upsert on (agentId, tokenAddress)
UpsertHolding(rows, agentId, tokenAddress, amount, costBasis, t) ==
    IF \E h \in rows : h.agentId = agentId /\ h.tokenAddress = tokenAddress
    THEN {IF h.agentId = agentId /\ h.tokenAddress = tokenAddress
          THEN [h EXCEPT !.amount = amount, !.costBasis = costBasis] ELSE h : h \in rows}
    ELSE rows \cup {[agentId |-> agentId, tokenAddress |-> tokenAddress, amount |-> amount,
                     costBasis |-> costBasis, acquiredAt |-> t]}

\* the catch of the buy without the release
AfterBuyFailedKeepsClaim(m, tokenAddress, agentId) == m

\* catch (error) of the buy: after the error log, the claim is released
AfterBuyFailed(m, tokenAddress, agentId) == ReleaseToken(m, tokenAddress, agentId)

\* the type of the agentLog entry scanAndBuy writes once buyToken has ended
BuyLogType(buyOk) == IF buyOk THEN "trade" ELSE "error"

\* buyToken and what follows it.  On success: Trade, Holding, monitoring; the
\* claim stays.  On failure: the claim is released.  The instance's trailing entry
\* for the new position goes with the instance when runCycle returns.
BuyExecute(slot) ==
    LET t == task[slot]
        a == t.agent
        tok == t.chosen
        k == <<VaultAgentId(a), tok>>
        amountOut == 1000
    IN  /\ t.pc = "buy"
        /\ \E buyOk \in BOOLEAN :
              /\ lastBuy' = [op |-> "buy", agentId |-> a, tokenAddress |-> tok, ok |-> buyOk,
                             holdingsBefore |-> Cardinality(RowsOf(a)),
                             via |-> slot, cycle |-> CycleOf(slot),
                             log |-> BuyLogType(buyOk)]
              /\ IF buyOk
                 THEN /\ vault' = [vault EXCEPT ![k] = @ + amountOut]
                      /\ trades' = trades \cup
                             {[agentId |-> a, tokenAddress |-> tok, type |-> "buy",
                               at |-> now]}
                      /\ holdings' = UpsertHolding(holdings, a, tok, amountOut,
                                                   t.tradeAmount, now)
                      /\ monitor' = [monitor EXCEPT !.snapshots = MapSet(@, tok, <<30>>)]
                      /\ Finish(slot,
                                IF slot = "fleet"
                                THEN [fleet EXCEPT !.buys = @ \cup
                                        {[agentId |-> a, token |-> ToLower(tok)]}]
                                ELSE fleet,
                                {ToLower(tok)}, FALSE)
                      /\ UNCHANGED claims
                 ELSE /\ claims' = AfterBuyFailed(claims, tok, a)
                      /\ Finish(slot, fleet, {}, FALSE)
                      /\ UNCHANGED <<vault, trades, holdings, monitor>>
        /\ lastCall' = NoCall /\ lastEval' = NoEval
        /\ UNCHANGED <<now, evalIn, deadTokens, singleRuns, seenPeak>>

\* time passes while no cycle is in progress
Tick ==
    /\ ~fleet.running /\ ~fleet.returned
    /\ task["single"] = Idle
    /\ now < MaxNow
    /\ now' = now + TickMs
    /\ lastCall' = NoCall /\ lastEval' = NoEval /\ lastBuy' = NoBuy
    /\ UNCHANGED <<claims, evalIn, holdings, vault, trades, monitor, deadTokens, fleet,
                   task, singleRuns, seenPeak>>

Init ==
    /\ now = 0
    /\ claims = {}
    /\ lastCall = NoCall
    /\ evalIn = NoEntry
    /\ lastEval = NoEval
    /\ FleetInit

\* the agent loop alone: fleet cycles one after another, the clock advancing
\* between them
Next ==
    \/ FleetStart
    \/ LoopReport
    \/ CycleBegin("fleet")
    \/ EvaluateStep("fleet")
    \/ ScanBegin("fleet")
    \/ ScanDecide("fleet")
    \/ BuyExecute("fleet")
    \/ Tick

Spec == Init /\ [][Next]_vars

\* the agent loop with runSingleAgentCycle called beside it, every interleaving of
\* their steps, within one step of the clock
RaceNext ==
    \/ FleetStart
    \/ LoopReport
    \/ \E a \in Agents : SingleStart(a)
    \/ \E slot \in Slots : CycleBegin(slot)
    \/ \E slot \in Slots : EvaluateStep(slot)
    \/ \E slot \in Slots : ScanBegin(slot)
    \/ \E slot \in Slots : ScanDecide(slot)
    \/ \E slot \in Slots : BuyExecute(slot)

SpecRace == Init /\ [][RaceNext]_vars

(***************************************************************************)
(* SpecHold: evaluateHoldings reaches one open position of agent a1, over  *)
(* bounded positions, hold durations and quotes, and carries out the exit  *)
(* it decides                                                              *)
(***************************************************************************)
\* token amounts in the vault; the Holding row's amount is the vault's, or still the
\* amount before the last partial sell (executeSell leaves `amount` as it is)
HoldVaultAmounts == {3, 4, 1000}
HoldStaleFactors == {1, 2}
\* cost bases: zero (what a partial sell can leave), small, and a position size
HoldCostBases == {0, 3, 2000}
\* minutes since the buy
HoldMinutes == {15, 90}
\* quotes: none, a loss, break-even, and gains on both sides of the profit targets
HoldScenarios ==
    { Scenario(FALSE, 0, NoMarket), Scenario(TRUE, -10, NoMarket),
      Scenario(TRUE, 0, NoMarket), Scenario(TRUE, 15, NoMarket),
      Scenario(TRUE, 25, NoMarket) }

HoldRow(amount, costBasis) ==
    [agentId |-> "a1", tokenAddress |-> "0xAb", amount |-> amount,
     costBasis |-> costBasis, acquiredAt |-> 0]

HoldInit ==
    /\ now \in {Minutes(h) : h \in HoldMinutes}
    /\ claims = {}
    /\ lastCall = NoCall
    /\ evalIn = NoEntry
    /\ lastEval = NoEval
    /\ \E v \in HoldVaultAmounts, f \in HoldStaleFactors, c \in HoldCostBases :
          /\ holdings = {HoldRow(v * f, c)}
          /\ vault = [k \in (0..(Len(AgentOrder) - 1)) \X FleetTokens |->
                          IF k = <<VaultAgentId("a1"), "0xAb">> THEN v ELSE 0]
          /\ task = [s \in Slots |->
                          IF s = "single"
                          THEN [NewTask("a1") EXCEPT !.pc = "evaluate",
                                                     !.queue = <<HoldRow(v * f, c)>>]
                          ELSE Idle]
    /\ trades = {[agentId |-> "a1", tokenAddress |-> "0xAb", type |-> "buy", at |-> 0]}
    /\ monitor = [EmptyMonitor EXCEPT !.snapshots = MapSet(@, "0xAb", <<30>>)]
    /\ deadTokens = {}
    /\ fleet = FleetIdle
    /\ singleRuns = 1
    /\ seenPeak = {}
    /\ lastBuy = NoBuy

HoldEvaluate == EvaluateStepOver("single", HoldScenarios)

HoldNext == HoldEvaluate

SpecHold == HoldInit /\ [][HoldNext]_vars

(***************************************************************************)
(* SpecMonitor: the post-buy monitor and the dead-token blacklist as the   *)
(* agents drive them.  An agent buys a token that passes scanAndBuy's      *)
(* filters (startMonitoring), evaluates an open position once per cycle    *)
(* (the post-buy block calls checkMomentum while the position is at most   *)
(* 10 minutes old; time may pass between the hold-duration read and the    *)
(* clock read of checkMomentum), and a full exit calls stopMonitoring.     *)
(* Position rows carry two history fields: how often each checkpoint was   *)
(* evaluated for the position.                                             *)
(***************************************************************************)
\* number of 5-minute steps of the clock
MonMaxTicks == 7

\* time that passes inside one evaluation before checkMomentum reads the clock
MonLatencies == {0, Minutes(5), Minutes(20)}

\* market data at a check, against a buy at price 100 with 30 holders: no data;
\* flat; a dead launch (+1 holder, -6%); holders up by 10 and then stalling, -6%;
\* a spike (+30 holders, +20%)
MonMarkets ==
    { NoMarket,
      [price |-> 100, holder_count |-> 33, holdersLen |-> -1],
      [price |-> 94, holder_count |-> 31, holdersLen |-> -1],
      [price |-> 94, holder_count |-> 40, holdersLen |-> -1],
      [price |-> 120, holder_count |-> 60, holdersLen |-> -1] }

\* scanAndBuy for a token that scores: own holdings and own recent sells are
\* blacklisted, dead tokens are skipped, the token is claimed and, when the claim
\* is granted, bought and handed to startMonitoring
MonBuy(a, tok) ==
    LET dead == DeadTokenCleanup(deadTokens, now)
        r == ClaimToken(claims, now, tok, a, 300000)
    IN  /\ Cardinality(RowsOf(a)) < MAX_HOLDINGS_PER_AGENT
        /\ ToLower(tok) \notin ({ToLower(h.tokenAddress) : h \in RowsOf(a)}
                               \cup RecentSells(a))
        /\ ~MapHas(dead, ToLower(tok))
        /\ deadTokens' = dead
        /\ claims' = r.claims
        /\ lastCall' = NoCall /\ lastEval' = NoEval
        /\ IF r.ret
           THEN /\ holdings' = holdings \cup
                       {[agentId |-> a, tokenAddress |-> tok, amount |-> 1000,
                         costBasis |-> MIN_TRADE_AMOUNT, acquiredAt |-> now,
                         evaluatedAt |-> now, earlyChecks |-> 0, midChecks |-> 0]}
                /\ trades' = trades \cup {[agentId |-> a, tokenAddress |-> tok,
                                           type |-> "buy", at |-> now, reason |-> "buy"]}
                /\ monitor' = [monitor EXCEPT !.snapshots = MapSet(@, tok, <<30>>)]
                /\ lastBuy' = [op |-> "buy", agentId |-> a, tokenAddress |-> tok,
                               ok |-> TRUE]
           ELSE /\ lastBuy' = NoBuy
                /\ UNCHANGED <<holdings, trades, monitor>>
        /\ UNCHANGED <<now, evalIn, vault, fleet, task, singleRuns, seenPeak>>

\* evaluateHoldings reaches the position h in a later cycle: the post-buy block,
\* then the exit rules.  `exits`: a full exit is ordered (by the monitor, or else by
\* the rules) and its sale goes through
MonEvaluate(h) ==
    /\ now > h.evaluatedAt
    /\ \E latencyMs \in MonLatencies, market \in MonMarkets, exits \in BOOLEAN :
          LET tok == h.tokenAddress
              holdMs == now - h.acquiredAt
              e == [MonitorInputOf(monitor, tok, market, TRUE)
                        EXCEPT !.latencyMs = latencyMs]
                   @@ [holdMs |-> holdMs, buyPrice |-> 100, buyHolderCount |-> 30]
              r == PostBuyCheck(e)
              momentumExit == r.action \notin {"NONE", "HOLD"}
              after == MonitorAfter(monitor, tok, r)
          IN  /\ now + latencyMs <= MonMaxTicks * TickMs
              /\ holdMs > Minutes(10) => latencyMs = 0
              /\ now' = now + latencyMs
              /\ monitor' = IF exits THEN StopMonitoring(after, tok) ELSE after
              /\ deadTokens' = IF r.dead
                               THEN MapSet(deadTokens, ToLower(tok),
                                           [detectedAt |-> now + latencyMs])
                               ELSE deadTokens
              /\ holdings' = (holdings \ {h}) \cup
                    (IF exits THEN {}
                     ELSE {[h EXCEPT
                              !.evaluatedAt = now + latencyMs,
                              !.earlyChecks =
                                 IF r.twoMinCheckDone /\ ~e.twoMinCheckDone
                                 THEN Min(@ + 1, 2) ELSE @,
                              !.midChecks =
                                 IF r.fiveMinCheckDone /\ ~e.fiveMinCheckDone
                                 THEN Min(@ + 1, 2) ELSE @]})
              /\ trades' = IF exits
                           THEN trades \cup
                                   {[agentId |-> h.agentId, tokenAddress |-> tok,
                                     type |-> "sell", at |-> now + latencyMs,
                                     reason |-> IF momentumExit THEN r.action
                                                ELSE "rule"]}
                           ELSE trades
              /\ lastCall' = [op |-> "checkMomentum", tokenAddress |-> tok,
                              agentId |-> h.agentId, ret |-> r.action,
                              holdMs |-> holdMs]
    /\ lastEval' = NoEval /\ lastBuy' = NoBuy
    /\ UNCHANGED <<claims, evalIn, vault, fleet, task, singleRuns, seenPeak>>

\* the agent loop sleeps until the next cycle
MonTick ==
    /\ now < MonMaxTicks * TickMs
    /\ now' = now + TickMs
    /\ lastCall' = NoCall /\ lastEval' = NoEval /\ lastBuy' = NoBuy
    /\ UNCHANGED <<claims, evalIn, holdings, vault, trades, monitor, deadTokens, fleet,
                   task, singleRuns, seenPeak>>

MonNext ==
    \/ \E a \in Agents : MonBuy(a, "0xAb")
    \/ \E h \in holdings : MonEvaluate(h)
    \/ MonTick

SpecMonitor == Init /\ [][MonNext]_vars

(***************************************************************************)
(* Entries.  checkTokenQuality, the strategy scorers, the advisory         *)
(* decision, the learning profile and the position size, as scanAndBuy     *)
(* applies them to one token of the feed.  Reserve and volume are in MON,  *)
(* amounts of MON spent in thousandths, win rates in percent.  The         *)
(* technical, whale and regime adjustments are sums of integer constants;  *)
(* the model draws the sums.                                               *)
(***************************************************************************)
QualityFailed(score) == [passed |-> FALSE, score |-> score]

\* checkTokenQuality from "QUALITY SCORING" on
QualityScore(token) ==
    LET priceAction == IF token.percent > 10 THEN 20
                       ELSE IF token.percent > 0 THEN 10
                       ELSE IF token.percent > -5 THEN 5
                       ELSE -10
        holderStrength == IF token.holders > 500 THEN 15
                          ELSE IF token.holders > 200 THEN 10
                          ELSE IF token.holders > 100 THEN 5
                          ELSE 0
        liquidity == IF token.reserve > 100 THEN 15
                     ELSE IF token.reserve > 50 THEN 10
                     ELSE IF token.reserve > 25 THEN 5
                     ELSE 0
        maturity == IF token.ageMinutes > 72 * 60 THEN 10
                    ELSE IF token.ageMinutes > 24 * 60 THEN 5
                    ELSE 0
        activity == IF token.volume > 20 * token.reserve THEN -15
                    ELSE IF token.volume > 5 * token.reserve
                            /\ token.volume <= 10 * token.reserve THEN 10
                    ELSE IF token.volume > 2 * token.reserve
                            /\ token.volume <= 5 * token.reserve THEN 5
                    ELSE 0
        score == Max(0, Min(100, 50 + priceAction + holderStrength + liquidity
                                    + maturity + activity))
    IN  IF ~token.hasMarket THEN QualityFailed(0)
        ELSE IF token.percent <= -15 THEN QualityFailed(0)
        ELSE IF score < 60 THEN QualityFailed(score)
        ELSE [passed |-> TRUE, score |-> score]

\* checkTokenQuality without its hard requirements
CheckTokenQualityScoreOnly(token) == QualityScore(token)

\* checkTokenQuality: no market data, reserve under 3 MON, under 30 holders, under
\* 2 hours old or a price not above 0 reject the token; then the quality score
CheckTokenQuality(token) ==
    IF ~token.hasMarket THEN QualityFailed(0)
    ELSE IF token.reserve < 3 THEN QualityFailed(0)
    ELSE IF token.holders < 30 THEN QualityFailed(0)
    ELSE IF token.ageMinutes < 2 * 60 THEN QualityFailed(0)
    ELSE IF token.price <= 0 THEN QualityFailed(0)
    ELSE QualityScore(token)

\* baseScore(ctx)
BaseScore(ctx) ==
    IF ~ctx.hasMarket THEN 5
    ELSE 35
         + (IF ctx.vol > 10000000 THEN 15
            ELSE IF ctx.vol > 1000000 THEN 10
            ELSE IF ctx.vol > 100000 THEN 6
            ELSE IF ctx.vol > 10000 THEN 2
            ELSE 0)
         + (IF ctx.holder_count > 100 THEN 10
            ELSE IF ctx.holder_count > 30 THEN 6
            ELSE IF ctx.holder_count > 10 THEN 3
            ELSE 0)
         + (IF ctx.price_change_1h > 5 THEN 5
            ELSE IF ctx.price_change_1h < -10 THEN -10
            ELSE 0)
         + ctx.baseAdj

\* regimeStrategyBonus for the three strategies of the entry model
RegimeStrategyBonus(regime, strategy) ==
    CASE regime = "bull" -> (CASE strategy = "volume_watcher" -> 8
                               [] strategy = "swing_trader" -> 5
                               [] OTHER -> -10)
      [] regime = "bear" -> (CASE strategy = "volume_watcher" -> -5
                               [] strategy = "swing_trader" -> 5
                               [] OTHER -> 15)
      [] OTHER -> IF strategy = "swing_trader" THEN 10 ELSE 5

\* strategyOverlay: strategy-specific adjustments and the regime bonus
StrategyOverlay(ctx, strategy, score) ==
    score + ctx.overlayAdj + RegimeStrategyBonus(ctx.regime, strategy)

\* a signal whose score is left as the scorer computed it
BuildSignalUnclamped(score) == score

\* buildSignal: score: Math.max(0, Math.min(100, score))
BuildSignal(score) == Max(0, Min(100, score))

\* scoreVolumeWatcher; without ctx.market every optional read gives 0
ScoreVolumeWatcher(ctx) ==
    LET vol == IF ctx.hasMarket THEN ctx.vol ELSE 0
        pc1h == IF ctx.hasMarket THEN ctx.price_change_1h ELSE 0
        pc24h == IF ctx.hasMarket THEN ctx.price_change_24h ELSE 0
    IN  BuildSignal(StrategyOverlay(ctx, "volume_watcher",
            BaseScore(ctx)
            + (IF vol > 50000000 THEN 25
               ELSE IF vol > 5000000 THEN 18
               ELSE IF vol > 1000000 THEN 12
               ELSE IF vol > 100000 THEN 5
               ELSE 0)
            + (IF pc1h > 5 /\ vol > 1000000 THEN 15 ELSE 0)
            + (IF pc24h > 0 /\ vol > 5000000 THEN 8 ELSE 0)))

\* scoreContrarian
ScoreContrarian(ctx) ==
    LET vol == IF ctx.hasMarket THEN ctx.vol ELSE 0
        holders == IF ctx.hasMarket THEN ctx.holder_count ELSE 0
        pc1h == IF ctx.hasMarket THEN ctx.price_change_1h ELSE 0
        pc24h == IF ctx.hasMarket THEN ctx.price_change_24h ELSE 0
    IN  BuildSignal(StrategyOverlay(ctx, "contrarian",
            BaseScore(ctx)
            + (IF vol < 100000 \/ holders < 20 THEN -20 ELSE 0)
            + (IF pc1h < -15 /\ holders > 50 THEN 25
               ELSE IF pc1h < -8 /\ holders > 20 THEN 15
               ELSE IF pc1h < -5 /\ holders > 15 THEN 8
               ELSE 0)
            + (IF pc24h < -20 /\ pc1h > 0 THEN 20 ELSE 0)
            + (IF pc1h > 30 THEN -15 ELSE 0)
            + (IF ctx.hasMarket /\ ctx.is_graduated /\ vol > 500000 THEN 8 ELSE 0)))

\* scoreSwingTrader
ScoreSwingTrader(ctx) ==
    LET vol == IF ctx.hasMarket THEN ctx.vol ELSE 0
        pc1h == IF ctx.hasMarket THEN ctx.price_change_1h ELSE 0
    IN  BuildSignal(StrategyOverlay(ctx, "swing_trader",
            BaseScore(ctx)
            + (IF vol < 100000 THEN -10 ELSE IF vol > 1000000 THEN 8 ELSE 0)
            + (IF pc1h > 15 THEN 20
               ELSE IF pc1h > 5 THEN 12
               ELSE IF pc1h < -5 THEN -15
               ELSE 0)
            + (IF pc1h > 5 /\ vol > 500000 THEN 10 ELSE 0)))

\* STRATEGY_SCORERS[strategy](ctx).score
Scorer(strategy, ctx) ==
    CASE strategy = "volume_watcher" -> ScoreVolumeWatcher(ctx)
      [] strategy = "swing_trader" -> ScoreSwingTrader(ctx)
      [] OTHER -> ScoreContrarian(ctx)

\* the time-window check without the enabled flag
IsTokenInWindowIgnoringEnabled(strategy, tokenAgeSeconds) ==
    CASE strategy = "volume_watcher" -> ~(tokenAgeSeconds < 300) /\ ~(tokenAgeSeconds > 7200)
      [] strategy = "contrarian" -> ~(tokenAgeSeconds < 3600)
      [] strategy = "swing_trader" -> ~(tokenAgeSeconds < 7200)
      [] OTHER -> FALSE

\* isTokenInWindow(strategy, tokenAgeSeconds).allowed over AGENT_TIME_WINDOWS:
\* volume_watcher 300..7200 s enabled, contrarian from 3600 s enabled,
\* swing_trader from 7200 s disabled; an unknown strategy is not allowed
IsTokenInWindow(strategy, tokenAgeSeconds) ==
    CASE strategy = "volume_watcher" -> ~(tokenAgeSeconds < 300) /\ ~(tokenAgeSeconds > 7200)
      [] strategy = "contrarian" -> ~(tokenAgeSeconds < 3600)
      [] strategy = "swing_trader" -> FALSE
      [] OTHER -> FALSE

\* regimeThresholdAdjustment(regime, baseThreshold)
RegimeThresholdAdjustment(regime, baseThreshold) ==
    CASE regime = "bull" -> Max(85, baseThreshold - 5)
      [] regime = "bear" -> Min(95, baseThreshold + 15)
      [] OTHER -> baseThreshold

\* makeAgentDecision: the parsed reply, validated; "throws" ends in the catch.
\* targetAmount is in MON, 0 when the reply has none.
MakeAgentDecision(llm, confidence, targetAmount) ==
    IF llm = "throws" THEN [action |-> "SKIP", confidence |-> 0, targetAmount |-> 0]
    ELSE LET conf == Max(0, Min(100, IF confidence = 0 THEN 50 ELSE confidence))
         IN  [action |-> llm, confidence |-> conf,
              targetAmount |-> IF llm = "BUY" /\ targetAmount = 0
                               THEN (IF conf > 70 THEN 10000 ELSE 5000)
                               ELSE targetAmount]

\* the threshold as it was before the low tier was brought down to the standard
CalculateAdaptiveConfidenceStrict(winRate, totalTrades) ==
    IF totalTrades < 10 THEN 75
    ELSE IF winRate >= 50 THEN 60
    ELSE IF winRate >= 35 THEN 70
    ELSE 85

\* calculateAdaptiveConfidence(winRate, totalTrades)
CalculateAdaptiveConfidence(winRate, totalTrades) ==
    IF totalTrades < 10 THEN 75
    ELSE IF winRate >= 50 THEN 60
    ELSE IF winRate >= 35 THEN 70
    ELSE 70

\* calculateAdaptivePositionSize(winRate, netPnL), in MON
CalculateAdaptivePositionSize(winRate, netPnL) ==
    IF netPnL < -10 THEN 2
    ELSE IF winRate >= 50 /\ netPnL > 10 THEN 10
    ELSE IF winRate >= 40 THEN 7
    ELSE 5

\* calculateMaxPositions(winRate)
CalculateMaxPositions(winRate) ==
    IF winRate >= 50 THEN 5 ELSE IF winRate >= 35 THEN 3 ELSE 2

\* getAgentLearningProfile, from the figures it derives from the last 100 trades
LearningProfile(totalTrades, winRate, netPnL) ==
    [totalTrades |-> totalTrades, winRate |-> winRate,
     confidenceThreshold |-> CalculateAdaptiveConfidence(winRate, totalTrades),
     positionSize |-> CalculateAdaptivePositionSize(winRate, netPnL),
     maxPositions |-> CalculateMaxPositions(winRate)]

\* shouldTakeTradeBasedOnLearning(profile, confidence, currentPositions).allowed
ShouldTakeTradeBasedOnLearning(profile, confidence, currentPositions) ==
    /\ ~(confidence < profile.confidenceThreshold)
    /\ ~(currentPositions >= profile.maxPositions)

\* getRecommendedPositionSize(profile, confidence), in thousandths of MON
GetRecommendedPositionSize(profile, confidence) ==
    Min(15000, Max(2000, profile.positionSize * 10 * (50 + confidence)))

(***************************************************************************)
(* SpecScore: a strategy scorer applied to one token context               *)
(***************************************************************************)
ScoreInputs ==
    [strategy : {"volume_watcher", "contrarian", "swing_trader"}, hasMarket : BOOLEAN,
     vol : {0, 200000, 60000000},
     holder_count : {0, 40, 600}, price_change_1h : {-20, 0, 40},
     price_change_24h : {-30, 10}, is_graduated : BOOLEAN,
     baseAdj : {-80, 0, 80}, overlayAdj : {-80, 0, 80},
     regime : {"bull", "bear", "sideways"}]

ScoreInit ==
    /\ now = 0
    /\ claims = {}
    /\ lastCall = NoCall
    /\ evalIn \in ScoreInputs
    /\ lastEval = NoEval
    /\ FleetInit

ScoreApply ==
    /\ lastEval = NoEval
    /\ lastEval' = [score |-> Scorer(evalIn.strategy, evalIn)]
    /\ UNCHANGED <<coordVars, evalIn, fleetVars>>

SpecScore == ScoreInit /\ [][ScoreApply]_vars

(***************************************************************************)
(* SpecEntry: scanAndBuy takes one token of the feed through the filters,  *)
(* the scorer, the advisory decision with the learning check, and the buy. *)
(* evalIn is the candidate as far as it got; lastBuy the buy submitted.    *)
(***************************************************************************)
EntryInit ==
    /\ now = 0
    /\ claims = {}
    /\ lastCall = NoCall
    /\ evalIn \in [pc : {"filter"},
                   strategy : {"volume_watcher", "contrarian", "swing_trader"},
                   monBalance : {1000, 20000, 100000}, heldCount : {0, 1}]
    /\ lastEval = NoEval
    /\ FleetInit

\* the token loop of scanAndBuy up to the scorer: market data, checkTokenQuality,
\* price, volume, holders, dump and time-window filters
EntryFilter ==
    /\ evalIn.pc = "filter"
    /\ \E token \in [hasMarket : BOOLEAN, reserve : {2, 10, 120}, holders : {5, 30, 600},
                    ageMinutes : {30, 120, 180}, price : {0, 1}, percent : {-20, 12},
                    percent_1h : {-25, 8}, volume : {500, 2000}] :
          LET q == CheckTokenQuality(token)
              passes == /\ token.hasMarket
                        /\ q.passed
                        /\ token.price > 0
                        /\ ~(token.volume < 1000)
                        /\ ~(token.holders < 30)
                        /\ (evalIn.strategy # "contrarian" => ~(token.percent_1h < -20))
                        /\ IsTokenInWindow(evalIn.strategy, token.ageMinutes * 60)
          IN  evalIn' = [token |-> token, quality |-> q, scored |-> FALSE]
                        @@ [evalIn EXCEPT !.pc = IF passes THEN "score" ELSE "done"]
    /\ UNCHANGED <<coordVars, lastEval, fleetVars>>

\* chart and holder data, the scorer, the regime's threshold
EntryScore ==
    /\ evalIn.pc = "score"
    /\ \E baseAdj \in {-30, 0, 30}, overlayAdj \in {-30, 4, 30},
          regime \in {"bull", "bear", "sideways"} :
          LET t == evalIn.token
              ctx == [hasMarket |-> TRUE, vol |-> t.volume, holder_count |-> t.holders,
                      price_change_1h |-> t.percent_1h, price_change_24h |-> t.percent,
                      is_graduated |-> FALSE, baseAdj |-> baseAdj,
                      overlayAdj |-> overlayAdj, regime |-> regime]
              score == Scorer(evalIn.strategy, ctx)
          IN  evalIn' = [score |-> score]
                        @@ [evalIn EXCEPT
                              !.scored = TRUE,
                              !.pc = IF score >= RegimeThresholdAdjustment(regime, 75)
                                     THEN "decide" ELSE "done"]
    /\ UNCHANGED <<coordVars, lastEval, fleetVars>>

\* the learning profile, makeAgentDecision, the learning check, the position size
EntryDecide ==
    /\ evalIn.pc = "decide"
    /\ \E llm \in {"throws", "SKIP", "BUY"}, confidence \in {50, 72, 95},
          targetAmount \in {0, 100, 10000}, totalTrades \in {3, 20},
          winRate \in {0, 20, 40, 60}, netPnL \in {-20, 0, 20} :
          LET profile == LearningProfile(totalTrades, winRate, netPnL)
              decision == MakeAgentDecision(llm, confidence, targetAmount)
              approved == /\ decision.action = "BUY"
                          /\ ShouldTakeTradeBasedOnLearning(profile, decision.confidence,
                                                            evalIn.heldCount)
          IN  evalIn' = [llm |-> llm, profile |-> profile, approved |-> approved,
                         tradeAmount |->
                            IF decision.targetAmount # 0 THEN decision.targetAmount
                            ELSE GetRecommendedPositionSize(profile, decision.confidence)]
                        @@ [evalIn EXCEPT !.pc = IF approved THEN "buy" ELSE "done"]
    /\ UNCHANGED <<coordVars, lastEval, fleetVars>>

\* the balance check and buyToken(..., tradeAmountStr)
EntryBuy ==
    /\ evalIn.pc = "buy"
    /\ evalIn' = [evalIn EXCEPT !.pc = "done"]
    /\ lastBuy' = IF evalIn.tradeAmount > evalIn.monBalance THEN NoBuy
                  ELSE [op |-> "buy", amount |-> evalIn.tradeAmount,
                        monBalance |-> evalIn.monBalance]
    /\ UNCHANGED <<coordVars, lastEval, holdings, vault, trades, monitor, deadTokens,
                   fleet, task, singleRuns, seenPeak>>

EntryNext ==
    \/ EntryFilter
    \/ EntryScore
    \/ EntryDecide
    \/ EntryBuy

SpecEntry == EntryInit /\ [][EntryNext]_vars

(***************************************************************************)
(* SpecRegime: detectMarketRegime on the aggregates of one batch of        *)
(* tokens, and the threshold scanAndBuy derives from the regime.  The      *)
(* batch is given by the figures the detector computes from it: the number *)
(* of tokens with market data, the two average price changes (percent),    *)
(* the share of tokens with a positive 1h change (percent), the average    *)
(* volume (MON) and the number of tokens created in the last hour.         *)
(***************************************************************************)
\* detectMarketRegime, "Score-based regime detection": the two point totals
RegimeScores(p) ==
    [bull |-> (IF p.avgPriceChange1h > 5 THEN 30 ELSE 0)
              + (IF p.avgPriceChange24h > 10 THEN 20 ELSE 0)
              + (IF p.positiveTokenPct > 65 THEN 25 ELSE 0)
              + (IF p.avgVolume > 50000 THEN 10 ELSE 0)
              + (IF p.newTokenRate > 20 THEN 15 ELSE 0),
     bear |-> (IF p.avgPriceChange1h < -5 THEN 30 ELSE 0)
              + (IF p.avgPriceChange24h < -10 THEN 20 ELSE 0)
              + (IF p.positiveTokenPct < 35 THEN 25 ELSE 0)
              + (IF ~(p.avgVolume > 50000) /\ p.avgVolume < 100 THEN 5 ELSE 0)
              + (IF ~(p.newTokenRate > 20) /\ p.newTokenRate < 5 THEN 10 ELSE 0)]

\* a detector that asks a lead of more than 25 points
DetectMarketRegimeWideMargin(p) ==
    LET s == RegimeScores(p)
    IN  IF p.withMarket < 5 THEN [regime |-> "sideways", confidence |-> 20]
        ELSE IF s.bull > s.bear + 25
             THEN [regime |-> "bull", confidence |-> Min(90, 50 + s.bull - s.bear)]
        ELSE IF s.bear > s.bull + 25
             THEN [regime |-> "bear", confidence |-> Min(90, 50 + s.bear - s.bull)]
        ELSE [regime |-> "sideways",
              confidence |-> Max(30, 70 - (IF s.bull > s.bear THEN s.bull - s.bear
                                                              ELSE s.bear - s.bull))]

\* a detector whose bull and bear confidence is not capped
DetectMarketRegimeUncapped(p) ==
    LET s == RegimeScores(p)
    IN  IF p.withMarket < 5 THEN [regime |-> "sideways", confidence |-> 20]
        ELSE IF s.bull > s.bear + 15
             THEN [regime |-> "bull", confidence |-> 50 + s.bull - s.bear]
        ELSE IF s.bear > s.bull + 15
             THEN [regime |-> "bear", confidence |-> 50 + s.bear - s.bull]
        ELSE [regime |-> "sideways",
              confidence |-> Max(30, 70 - (IF s.bull > s.bear THEN s.bull - s.bear
                                                              ELSE s.bear - s.bull))]

\* detectMarketRegime: regime and confidence
DetectMarketRegime(p) ==
    LET s == RegimeScores(p)
    IN  IF p.withMarket < 5 THEN [regime |-> "sideways", confidence |-> 20]
        ELSE IF s.bull > s.bear + 15
             THEN [regime |-> "bull", confidence |-> Min(90, 50 + s.bull - s.bear)]
        ELSE IF s.bear > s.bull + 15
             THEN [regime |-> "bear", confidence |-> Min(90, 50 + s.bear - s.bull)]
        ELSE [regime |-> "sideways",
              confidence |-> Max(30, 70 - (IF s.bull > s.bear THEN s.bull - s.bear
                                                              ELSE s.bear - s.bull))]

RegimeInit ==
    /\ now = 0
    /\ claims = {}
    /\ lastCall = NoCall
    /\ evalIn \in [withMarket : {4, 5}, avgPriceChange1h : {-8, 0, 8},
                   avgPriceChange24h : {-15, 0, 15}, positiveTokenPct : {20, 50, 80},
                   avgVolume : {50, 1000, 60000}, newTokenRate : {2, 10, 25},
                   SIGNAL_THRESHOLD : {70, 75, 85, 96}]
    /\ lastEval = NoEval
    /\ FleetInit

\* scanAndBuy: regimeAnalysis = detectMarketRegime(...), then
\* dynamicThreshold = regimeThresholdAdjustment(regime, TRADE_CONFIG.SIGNAL_THRESHOLD)
RegimeDetect ==
    /\ lastEval = NoEval
    /\ LET regimeAnalysis == DetectMarketRegime(evalIn)
       IN  lastEval' = [regimeAnalysis |-> regimeAnalysis,
                        dynamicThreshold |->
                            RegimeThresholdAdjustment(regimeAnalysis.regime,
                                                      evalIn.SIGNAL_THRESHOLD)]
    /\ UNCHANGED <<coordVars, evalIn, fleetVars>>

SpecRegime == RegimeInit /\ [][RegimeDetect]_vars

(***************************************************************************)
(* SpecLoop: the agent-loop module (startAgentLoop, stopAgentLoop and the  *)
(* async loops they leave running), runSingleAgentCycle beside it, and the *)
(* activation of agents.  Here                                             *)
(*   fleet     is the module state of agent-loop: isRunning, cycleCount    *)
(*   task      the async loops started so far, each at its await            *)
(*   evalIn    the Agent table: isActive of each agent, in createdAt order *)
(*   lastCall  every BaseAgent constructed so far, with its vault agentId  *)
(***************************************************************************)
MaxLoops == 2
MaxLoopCycles == 3

LoopInit ==
    /\ now = 0
    /\ claims = {}
    /\ lastCall = [op |-> "new BaseAgent", constructed |-> {}]
    /\ evalIn \in [Agents -> BOOLEAN]
    /\ lastEval = NoEval
    /\ holdings = {}
    /\ vault = [k \in (0..(Len(AgentOrder) - 1)) \X FleetTokens |-> 0]
    /\ trades = {}
    /\ monitor = EmptyMonitor
    /\ deadTokens = {}
    /\ fleet = [isRunning |-> FALSE, cycleCount |-> 0]
    /\ task = [c \in 1..MaxLoops |-> [pc |-> "none", crashed |-> FALSE]]
    /\ singleRuns = 0
    /\ seenPeak = {}
    /\ lastBuy = NoBuy

\* startAgentLoop(): nothing when isRunning or without the operator key; else
\* isRunning = true and a new async loop, which first sleeps 5 s
StartAgentLoop ==
    /\ \E c \in 1..MaxLoops : task[c].pc = "none"
    /\ \E hasKey \in BOOLEAN :
          IF fleet.isRunning \/ ~hasKey
          THEN UNCHANGED <<fleet, task>>
          ELSE LET c == CHOOSE c \in 1..MaxLoops :
                            task[c].pc = "none" /\ \A d \in 1..(c - 1) : task[d].pc # "none"
               IN  /\ fleet' = [fleet EXCEPT !.isRunning = TRUE]
                   /\ task' = [task EXCEPT ![c] = [pc |-> "sleep", crashed |-> FALSE]]
    /\ UNCHANGED <<coordVars, sellVars, holdings, vault, trades, monitor, deadTokens,
                   singleRuns, seenPeak, lastBuy>>

\* stopAgentLoop()
StopAgentLoop ==
    /\ fleet' = [fleet EXCEPT !.isRunning = FALSE]
    /\ UNCHANGED <<coordVars, sellVars, holdings, vault, trades, monitor, deadTokens,
                   task, singleRuns, seenPeak, lastBuy>>

\* runAllAgentCycles: new BaseAgent(agents[i].id, i, ...) over the active agents in
\* createdAt order
FleetConstructed(agentTable) ==
    LET agents == SelectSeq(AgentOrder, LAMBDA a : agentTable[a])
    IN  {[agentId |-> agents[i], vaultAgentId |-> i - 1, via |-> "fleet"] :
            i \in 1..Len(agents)}

\* a sleep of loop c is over: while (isRunning) { cycleCount++; runAllAgentCycles() ...
LoopWake(c) ==
    /\ task[c].pc = "sleep"
    /\ fleet.isRunning => fleet.cycleCount < MaxLoopCycles
    /\ IF fleet.isRunning
       THEN /\ fleet' = [fleet EXCEPT !.cycleCount = @ + 1]
            /\ task' = [task EXCEPT ![c].pc = "cycle"]
            /\ lastCall' = [lastCall EXCEPT !.constructed = @ \cup FleetConstructed(evalIn)]
       ELSE /\ task' = [task EXCEPT ![c].pc = "ended"]
            /\ UNCHANGED <<fleet, lastCall>>
    /\ UNCHANGED <<now, claims, sellVars, holdings, vault, trades, monitor, deadTokens,
                   singleRuns, seenPeak, lastBuy>>

\* a loop without the try/catch around the cycle
AfterFleetCycleUncaught(l, threw) ==
    [l EXCEPT !.pc = IF threw THEN "ended" ELSE "sleep", !.crashed = threw]

\* try { await runAllAgentCycles(); log results } catch { log CRASHED }; then
\* await sleep(interval)
AfterFleetCycle(l, threw) == [l EXCEPT !.pc = "sleep", !.crashed = threw]

\* the runAllAgentCycles of loop c returns, or throws (the agent query, the operator
\* account or the token feed failed)
LoopCycleEnd(c) ==
    /\ task[c].pc = "cycle"
    /\ \E threw \in BOOLEAN : task' = [task EXCEPT ![c] = AfterFleetCycle(@, threw)]
    /\ UNCHANGED <<coordVars, sellVars, holdings, vault, trades, monitor, deadTokens,
                   fleet, singleRuns, seenPeak, lastBuy>>

\* runSingleAgentCycle(agentId): throws for an inactive agent; else
\* new BaseAgent(agentId, allAgents.findIndex(...), ...)
SingleAgentCycle(agentId) ==
    /\ lastCall' = IF ~evalIn[agentId] THEN lastCall
                   ELSE [lastCall EXCEPT !.constructed = @ \cup
                            {[agentId |-> agentId, vaultAgentId |-> VaultAgentId(agentId),
                              via |-> "single"]}]
    /\ UNCHANGED <<now, claims, sellVars, fleetVars>>

\* the admin endpoint "Activate all agents"
ActivateAgents ==
    /\ evalIn' = [a \in Agents |-> TRUE]
    /\ UNCHANGED <<coordVars, lastEval, fleetVars>>

LoopNext ==
    \/ StartAgentLoop
    \/ StopAgentLoop
    \/ \E c \in 1..MaxLoops : LoopWake(c)
    \/ \E c \in 1..MaxLoops : LoopCycleEnd(c)
    \/ \E a \in Agents : SingleAgentCycle(a)
    \/ ActivateAgents

SpecLoop == LoopInit /\ [][LoopNext]_vars

(***************************************************************************)
(* Claims about the coordinator                                            *)
(***************************************************************************)
NonExpired(c, t) == c.expiresAt >= t

\* C1: at every instant the coordinator holds at most one non-expired claim per
\* token, token addresses being compared case-insensitively.
C1_OneClaimPerToken ==
    \A e1, e2 \in claims :
        ( /\ ToLower(e1.val.tokenAddress) = ToLower(e2.val.tokenAddress)
          /\ NonExpired(e1.val, now)
          /\ NonExpired(e2.val, now) ) => e1 = e2

\* C1 witness: a token claimed under one spelling has just been claimed again
\* under the other spelling, after claims, a release and an expiry.
C1_Witness ==
    /\ lastCall.op = "claimToken"
    /\ lastCall.tokenAddress = "0xAb"
    /\ lastCall.prev # NoEntry
    /\ lastCall.prev.claimedAt < now
    /\ Cardinality(claims) = 2

\* C2: while agent A holds an unexpired claim on a token, claimToken on it by an
\* agent B # A returns false and leaves A's claim (holder and expiry) unchanged.
C2_OtherAgentBlocked ==
    ( /\ lastCall.op = "claimToken"
      /\ lastCall.prev # NoEntry
      /\ lastCall.prev.agentId # lastCall.agentId
      /\ NonExpired(lastCall.prev, lastCall.at) )
    => ( /\ lastCall.ret = FALSE
         /\ MapGet(claims, ToLower(lastCall.tokenAddress)) = lastCall.prev )

\* C2 witness: B's claim was refused at the very instant A's claim expires
\* (expiresAt = now), the last moment at which A's claim still counts.
C2_Witness ==
    /\ lastCall.op = "claimToken"
    /\ lastCall.prev # NoEntry
    /\ lastCall.prev.agentId # lastCall.agentId
    /\ lastCall.prev.expiresAt = lastCall.at
    /\ lastCall.ret = FALSE

\* the records the map holds for a token, whatever the spelling
RecordsOf(tokenAddress) ==
    {x \in claims : ToLower(x.val.tokenAddress) = ToLower(tokenAddress)}

\* the last call was a claimToken on a token whose record had expired (now > expiresAt)
ClaimOnExpired ==
    /\ lastCall.op = "claimToken"
    /\ lastCall.prev # NoEntry
    /\ lastCall.prev.expiresAt < lastCall.at

\* C14: a claim whose expiry time has passed never blocks: claimToken on that token
\* by any agent returns true and the record now belongs to the caller.
C14_ExpiredNeverBlocks ==
    ClaimOnExpired =>
        /\ lastCall.ret = TRUE
        /\ MapGet(claims, ToLower(lastCall.tokenAddress)).agentId = lastCall.agentId
        /\ MapGet(claims, ToLower(lastCall.tokenAddress)).claimedAt = lastCall.at

\* another agent took over a token whose claim had expired, without a release
C14_Witness ==
    /\ ClaimOnExpired
    /\ lastCall.prev.agentId # lastCall.agentId
    /\ lastCall.ret = TRUE
    /\ MapGet(claims, ToLower(lastCall.tokenAddress)).agentId = lastCall.agentId

\* the last call was a claimToken by the holder of an unexpired claim
ReclaimByHolder ==
    /\ lastCall.op = "claimToken"
    /\ lastCall.prev # NoEntry
    /\ lastCall.prev.agentId = lastCall.agentId
    /\ NonExpired(lastCall.prev, lastCall.at)

\* C15: when the holder re-claims a token before expiry, the new expiresAt is not
\* earlier than the previous one and the map holds exactly one record for the token.
C15_ReclaimExtends ==
    ReclaimByHolder =>
        /\ MapGet(claims, ToLower(lastCall.tokenAddress)).expiresAt
                >= lastCall.prev.expiresAt
        /\ Cardinality(RecordsOf(lastCall.tokenAddress)) = 1

\* C16: no claim outlives the 10-minute cap: a claimToken that returns true leaves
\* an expiresAt at most MAX_LOCK_DURATION after the call, whatever duration was
\* asked for, and no record expires later than MAX_LOCK_DURATION from now.
C16_HardCap ==
    /\ (lastCall.op = "claimToken" /\ lastCall.ret = TRUE) =>
          MapGet(claims, ToLower(lastCall.tokenAddress)).expiresAt
              <= lastCall.at + MAX_LOCK_DURATION
    /\ \A x \in claims : x.val.expiresAt <= now + MAX_LOCK_DURATION

\* the last call was a claimToken made right after the token's holder, another
\* agent, released it
ClaimAfterRelease ==
    /\ lastCall.op = "claimToken"
    /\ "afterReleaseBy" \in DOMAIN lastCall
    /\ lastCall.afterReleaseBy \notin {"none", lastCall.agentId}

\* C19: after the holder releases its claim on a token, claimToken on that token
\* by a different agent returns true at once, and the token is the caller's.
C19_ClaimAfterRelease ==
    ClaimAfterRelease =>
        /\ lastCall.ret = TRUE
        /\ MapGet(claims, ToLower(lastCall.tokenAddress)).agentId = lastCall.agentId

\* a2 claimed the token a1 had just released, some time after the start
C19_Witness ==
    /\ ClaimAfterRelease
    /\ lastCall.afterReleaseBy = "a1"
    /\ lastCall.agentId = "a2"
    /\ lastCall.ret = TRUE
    /\ lastCall.at > 0

\* C20: releaseToken on a token that is unclaimed, or claimed by a different agent,
\* leaves every claim record unchanged.
C20_ReleaseNoOp ==
    [][ ( /\ lastCall'.op = "releaseToken"
          /\ \/ lastCall'.prev = NoEntry
             \/ lastCall'.prev.agentId # lastCall'.agentId )
        => claims' = claims ]_vars

\* an agent called releaseToken on a token another agent holds; the record is intact
C20_Witness ==
    /\ lastCall.op = "releaseToken"
    /\ lastCall.prev # NoEntry
    /\ lastCall.prev.agentId # lastCall.agentId
    /\ MapGet(claims, ToLower(lastCall.tokenAddress)) = lastCall.prev

(***************************************************************************)
(* Claims about the exit rules                                             *)
(***************************************************************************)
HasEvaluation == lastEval # NoEval

ProfitReasons ==
    {"Snipe moon", "Snipe profit", "Alpha moon", "Alpha profit", "Diamond 60%",
     "Diamond big win", "Diamond partial", "Swing target", "Swing partial", "Degen 60%",
     "Degen big win", "Degen partial", "Volume target", "Volume partial", "Trend target",
     "Trend partial", "Contrarian exit", "Contrarian partial"}

\* position of an exit reason in the order profit targets (1), stop-loss (2),
\* trailing stop (3), time thresholds (4), maximum hold (5); 0 for no exit
TriggerRank(reason) ==
    CASE reason \in ProfitReasons -> 1
      [] reason = "Stop loss" -> 2
      [] reason = "Trailing stop" -> 3
      [] reason \in {"Time profit", "Time stop", "Extended hold"} -> 4
      [] reason = "Stale position" -> 5
      [] OTHER -> 0

\* the peak the trailing rule is evaluated against in evaluation o
PeakOf(o) == UpdateTrailing(o.in.prior, o.pnl)

\* does the condition of trigger i hold in evaluation o
TriggerHolds(i, o) ==
    CASE i = 1 -> CheckStrategyProfitTargets(o.in.strategy, o.pnl).sell
      [] i = 2 -> o.pnl <= Pct(StopLoss(o.in.strategy))
      [] i = 3 -> /\ PeakOf(o) > Pct(5)
                  /\ PeakOf(o) - o.pnl > Pct(GetTrailingStopThreshold(o.in.strategy))
      [] i = 4 -> TimeBasedExit(o.pnl, o.in.holdMs).sell
      [] i = 5 -> o.in.holdMs >= Minutes(STALE_HOLD_MINUTES)

FirstTrigger(o) ==
    IF \E i \in 1..5 : TriggerHolds(i, o)
    THEN CHOOSE i \in 1..5 : TriggerHolds(i, o) /\ \A j \in 1..(i - 1) : ~TriggerHolds(j, o)
    ELSE 0

\* rank of the exit taken: 0 none, 1..5 a trigger, 6 the post-buy momentum exit
TakenRank(o) ==
    CASE o.exit = "none" -> 0
      [] o.exit = "sell" -> TriggerRank(o.decision.reason)
      [] o.exit = "momentum" -> 6

MomentumOrdersExit(o) == o.momentum.action \notin {"NONE", "HOLD"}

C8_TrailingNeedsPeak ==
    (HasEvaluation /\ lastEval.exit = "sell" /\ lastEval.decision.reason = "Trailing stop")
        => lastEval.trailing.peakPnlPct > Pct(5)

\* the drop from the recorded peak exceeds the threshold, the peak is not above 5%,
\* and the position is kept
C8_Witness ==
    /\ HasEvaluation
    /\ lastEval.in.prior # NoEntry
    /\ lastEval.trailing.peakPnlPct <= Pct(5)
    /\ lastEval.trailing.peakPnlPct - lastEval.pnl
            > Pct(GetTrailingStopThreshold(lastEval.in.strategy))
    /\ lastEval.exit = "none"
    /\ lastEval.decision.reason = "Hold"

(***************************************************************************)
(* Claims about the fleet                                                  *)
(***************************************************************************)
\* the last step was a claimToken made by a runCycle of the fleet loop
FleetClaim == lastCall.op = "claimToken" /\ "via" \in DOMAIN lastCall /\ lastCall.via = "fleet"

\* ... for a token another agent had already attempted in this fleet cycle
SecondAttempt == FleetClaim /\ ~lastCall.firstAttempt

FleetBuysOf(token) == {b \in fleet.buys : b.token = token}
AttemptsOf(token) == {x \in fleet.attempted : x.token = token}

C4_NoDuplicateExposure ==
    \A h1, h2 \in holdings :
        ToLower(h1.tokenAddress) = ToLower(h2.tokenAddress) => h1.agentId = h2.agentId

\* C5: when an agent submits a buy its open holdings are below
\* MAX_HOLDINGS_PER_AGENT, and an agent's open holdings never exceed that limit.
C5_BelowLimitAtBuy ==
    /\ lastBuy # NoBuy => lastBuy.holdingsBefore < MAX_HOLDINGS_PER_AGENT
    /\ \A a \in Agents : Cardinality(RowsOf(a)) <= MAX_HOLDINGS_PER_AGENT

\* C6: an exception in one agent's cycle does not reach the other agents' cycles:
\* while the loop runs, agents[1..i] have been started and agents[1..i-1] have one
\* result each, in order; when it returns, every active agent has been run and has
\* exactly one result.
C6_OneResultPerAgent ==
    /\ fleet.running =>
          /\ Len(fleet.results) = fleet.i - 1
          /\ fleet.ran = {AgentOrder[j] : j \in 1..fleet.i}
    /\ fleet.returned =>
          /\ Len(fleet.results) = Len(AgentOrder)
          /\ fleet.ran = {AgentOrder[j] : j \in 1..Len(AgentOrder)}
    /\ \A j \in 1..Len(fleet.results) : fleet.results[j].agentName = AgentOrder[j]

\* the first agent's cycle threw, the second agent's cycle ran and completed
C6_Witness ==
    /\ fleet.returned
    /\ Len(fleet.results) = 2
    /\ fleet.results[1].status = "failed"
    /\ fleet.results[2].status = "completed"

\* the last step evaluated a holding up to the sell rules
RulesApplied == HasEvaluation /\ lastEval.exit # "momentum" /\ lastEval.in.costBasis > 0

TrailingFired(o) == o.exit = "sell" /\ o.decision.reason = "Trailing stop"

\* C9: once the highest PnL seen since entry has exceeded 5%, the trailing stop
\* fires in exactly the evaluations in which that peak minus the current PnL is above
\* the strategy's threshold (evaluations a profit target or the stop-loss decides
\* are left aside).
C9_TrailingFiresWhenDue ==
    (/\ RulesApplied
     /\ lastEval.seenPeak > Pct(5)
     /\ ~TriggerHolds(1, lastEval)
     /\ ~TriggerHolds(2, lastEval))
        => (TrailingFired(lastEval)
                <=> lastEval.seenPeak - lastEval.pnl
                        > Pct(GetTrailingStopThreshold(lastEval.in.strategy)))

\* C10: the peak recorded at an evaluation is the highest PnL of all evaluations of
\* the position since entry.
C10_PeakIsMaxSeen == RulesApplied => lastEval.trailing.peakPnlPct = lastEval.seenPeak

(***************************************************************************)
(* Claims about exits carried out                                          *)
(***************************************************************************)
\* C11: every position held for at least the maximum hold duration is fully exited
\* at its next evaluation, whatever its PnL.
C11_MaxHoldForcesFullExit ==
    (HasEvaluation /\ lastEval.in.holdMs >= Minutes(STALE_HOLD_MINUTES))
        => (lastEval.exit # "none" /\ lastEval.isFullExit)

\* the Holding row of the position evaluated last
EvaluatedRows ==
    {h \in holdings : /\ h.agentId = lastEval.in.agentId
                      /\ h.tokenAddress = lastEval.in.tokenAddress}
EvaluatedRow == CHOOSE h \in EvaluatedRows : TRUE

\* the last step evaluated a holding, decided a partial exit and the sale went through
PartialSold ==
    /\ HasEvaluation
    /\ lastEval.exit = "sell"
    /\ lastEval.decision.exitType = "partial"
    /\ \E tr \in trades : /\ tr.type = "sell" /\ tr.at = now
                           /\ tr.agentId = lastEval.in.agentId
                           /\ tr.tokenAddress = lastEval.in.tokenAddress
    /\ EvaluatedRows # {}

\* C12: a partial sell reduces the holding's cost basis by exactly
\* costBasis * soldAmount / totalAmountBeforeSale (integer division), the total
\* being the holding's amount immediately before the sale.
C12_ProportionalCostBasis ==
    PartialSold =>
        EvaluatedRow.costBasis =
            lastEval.in.costBasis
                - TruncDiv(lastEval.in.costBasis * lastEval.sellAmount, lastEval.in.balance)

\* C13: after a partial sell the remaining holding's implied PnL%, at an unchanged
\* price, equals the PnL% before the sale: the remaining cost basis is to the
\* remaining amount what the cost basis was to the amount, up to the rounding of
\* one unit of cost.
C13_PnlUnchangedByPartialSell ==
    (PartialSold /\ lastEval.in.costBasis > 0) =>
        LET total == lastEval.in.balance
            remaining == total - lastEval.sellAmount
        IN  /\ remaining * lastEval.in.costBasis <= total * EvaluatedRow.costBasis
            /\ total * EvaluatedRow.costBasis < remaining * lastEval.in.costBasis + total

(***************************************************************************)
(* Claims about the claim taken for a buy                                  *)
(***************************************************************************)
\* the coordinator holds a record of the buyer for the token of the last buy attempt
BuyerStillClaims ==
    /\ MapHas(claims, ToLower(lastBuy.tokenAddress))
    /\ MapGet(claims, ToLower(lastBuy.tokenAddress)).agentId = lastBuy.agentId

BuySucceeded == lastBuy # NoBuy /\ lastBuy.ok
BuyFailed == lastBuy # NoBuy /\ ~lastBuy.ok

\* C17: after an agent's successful buy the coordinator no longer holds that
\* agent's claim on the bought token.
C17_ClaimReleasedAfterBuy == BuySucceeded => ~BuyerStillClaims

\* the runCycle that made the last buy attempt has ended without an exception: the
\* fleet loop recorded "completed" for the agent, a single-agent run returned
CycleEndedNormally ==
    IF lastBuy.via = "fleet"
    THEN /\ Len(fleet.results) >= 1
         /\ fleet.results[Len(fleet.results)] =
                [agentName |-> lastBuy.agentId, status |-> "completed"]
         /\ task["fleet"] = Idle \/ task["fleet"].agent # lastBuy.agentId
    ELSE task["single"] = Idle

C21_ExitsBeforeEntries ==
    [][/\ {tr \in trades' : tr.type = "sell"} # {tr \in trades : tr.type = "sell"}
            => lastEval' # NoEval
       /\ lastEval' # NoEval => task[lastEval'.in.via].pc = "evaluate"
       /\ lastBuy'.op = "buy" => task[lastBuy'.via].pc = "buy"
       /\ \A s \in Slots :
             task[s].pc \in {"scan", "decide", "buy"}
                => /\ task[s].queue = <<>>
                   /\ task'[s].pc # "evaluate"]_vars

\* in the second cycle an agent has sold a position bought earlier and is now
\* about to buy
C21_Witness ==
    /\ fleet.cycle = 2
    /\ task["fleet"].pc = "buy"
    /\ \E sell \in trades, buy \in trades :
          /\ sell.type = "sell" /\ sell.at = now /\ sell.agentId = task["fleet"].agent
          /\ buy.type = "buy" /\ buy.at < now /\ buy.agentId = sell.agentId
          /\ buy.tokenAddress = sell.tokenAddress

(***************************************************************************)
(* Claims about reconciliation with the vault                              *)
(***************************************************************************)
\* C22 as stated: whenever a holding is evaluated whose persisted amount differs
\* from the vault's amount, the vault's amount is used for the decision and the
\* persisted amount (where the row is still there) is overwritten with it.
C22_VaultAmountWins ==
    (lastEval # NoEval /\ lastEval.in.dbAmount # lastEval.in.vaultAmount)
       => /\ lastEval.in.balance = lastEval.in.vaultAmount
          /\ \A h \in holdings :
                (/\ h.agentId = lastEval.in.agentId
                 /\ h.tokenAddress = lastEval.in.tokenAddress)
                   => h.amount = lastEval.in.vaultAmount

\* C22 amended: whenever a holding is evaluated whose persisted amount differs
\* from the vault's amount and the read of the vault succeeded, the vault's amount
\* is used for the decision and the persisted amount is overwritten with it.
C22_VaultAmountWinsWhenRead ==
    (/\ lastEval # NoEval
     /\ lastEval.in.dbAmount # lastEval.in.vaultAmount
     /\ lastEval.in.vaultReadOk)
       => /\ lastEval.in.balance = lastEval.in.vaultAmount
          /\ \A h \in holdings :
                (/\ h.agentId = lastEval.in.agentId
                 /\ h.tokenAddress = lastEval.in.tokenAddress)
                   => h.amount = lastEval.in.vaultAmount

\* a mismatch was reconciled from a successful read and the row is still there
C22_Witness ==
    /\ lastEval # NoEval
    /\ lastEval.in.dbAmount # lastEval.in.vaultAmount
    /\ lastEval.in.vaultReadOk
    /\ \E h \in holdings :
          /\ h.agentId = lastEval.in.agentId /\ h.tokenAddress = lastEval.in.tokenAddress
          /\ h.amount = lastEval.in.vaultAmount

(***************************************************************************)
(* Claims about the post-buy monitor                                       *)
(***************************************************************************)
\* C23: each of the two checkpoints is evaluated at most once for a position.
C23_CheckpointOnce ==
    \A h \in holdings : h.earlyChecks <= 1 /\ h.midChecks <= 1

\* a position whose early checkpoint was evaluated before it was 30 minutes old
\* and that was evaluated again after that
C23_Witness ==
    \E h \in holdings :
        /\ h.earlyChecks = 1 /\ h.midChecks = 0
        /\ h.evaluatedAt >= h.acquiredAt + Minutes(30)

\* C24: when the monitor returns SELL_DEAD_TOKEN or SELL_MOMENTUM_DYING for a
\* token, the token is on the dead-token blacklist, and no agent buys a token
\* within the hour after a position in it was sold on one of these two results.
C24_DeadTokenExcluded ==
    /\ (lastCall.op = "checkMomentum"
        /\ lastCall.ret \in {"SELL_DEAD_TOKEN", "SELL_MOMENTUM_DYING"})
          => MapHas(deadTokens, ToLower(lastCall.tokenAddress))
    /\ lastBuy.op = "buy"
          => ~\E tr \in trades :
                /\ tr.type = "sell"
                /\ tr.reason \in {"SELL_DEAD_TOKEN", "SELL_MOMENTUM_DYING"}
                /\ ToLower(tr.tokenAddress) = ToLower(lastBuy.tokenAddress)
                /\ now - tr.at <= Minutes(60)

(***************************************************************************)
(* Claims about entries                                                    *)
(***************************************************************************)
\* C25: when the advisory call throws or times out, the buy is approved exactly
\* when the raw signal score exceeds 85: 92 is approved, 70 is rejected.
C25_FallbackApprovesAbove85 ==
    ("llm" \in DOMAIN evalIn /\ evalIn.llm = "throws")
        => (evalIn.approved <=> evalIn.score > 85)

\* C26: a token that fails a hard gate of the quality filter (reserve under 3 MON,
\* under 30 holders, under 2 hours old, price not above 0) is rejected with score 0
\* whatever its other metrics, and the scorer is not invoked for it.
C26_HardGateRejects ==
    ("token" \in DOMAIN evalIn
        /\ (\/ evalIn.token.reserve < 3
            \/ evalIn.token.holders < 30
            \/ evalIn.token.ageMinutes < 120
            \/ evalIn.token.price <= 0))
        => /\ evalIn.quality = QualityFailed(0)
           /\ ~evalIn.scored
           /\ evalIn.pc = "done"

\* the token of the scenario, with every other metric in its favour, was rejected
C26_Witness ==
    /\ "token" \in DOMAIN evalIn
    /\ evalIn.token.hasMarket
    /\ evalIn.token.reserve = 10
    /\ evalIn.token.holders = 5
    /\ evalIn.token.ageMinutes = 30
    /\ evalIn.token.price = 1
    /\ evalIn.token.percent = 12
    /\ evalIn.token.volume = 2000
    /\ evalIn.pc = "done"

C28_AmountWithinSizing ==
    lastBuy.op = "buy"
        => /\ lastBuy.amount >= MIN_TRADE_AMOUNT
           /\ lastBuy.amount * 100 <= 15 * lastBuy.monBalance

\* C29: every buy submitted spends between 0.5 and 1.0 MON.
C29_AmountWithinConfigured ==
    lastBuy.op = "buy" => lastBuy.amount \in MIN_TRADE_AMOUNT .. 1000

C31_RegimeByMargin ==
    (lastEval # NoEval /\ evalIn.withMarket >= 5)
        => LET s == RegimeScores(evalIn)
               r == lastEval.regimeAnalysis
           IN  /\ r.regime = "bull" <=> s.bull > s.bear + 15
               /\ r.regime = "bear" <=> s.bear > s.bull + 15
               /\ r.regime \in {"bull", "bear", "sideways"}
               /\ (evalIn.avgPriceChange1h = 8 /\ evalIn.positiveTokenPct = 80)
                      => r.regime = "bull" /\ r.confidence >= 50

\* +8% and 80% with everything else against it: 55 points to 35, still bull
C31_Witness ==
    /\ lastEval # NoEval
    /\ evalIn.withMarket = 5
    /\ evalIn.avgPriceChange1h = 8
    /\ evalIn.positiveTokenPct = 80
    /\ evalIn.avgPriceChange24h = -15
    /\ evalIn.avgVolume = 50
    /\ evalIn.newTokenRate = 2
    /\ lastEval.regimeAnalysis.regime = "bull"

\* C32: with at least 5 qualifying tokens the confidence reported equals
\* clamp(50 + |bullScore - bearScore|, 30, 90), whichever regime is returned.
C32_ConfidenceClamp ==
    (lastEval # NoEval /\ evalIn.withMarket >= 5)
        => LET s == RegimeScores(evalIn)
               gap == IF s.bull > s.bear THEN s.bull - s.bear ELSE s.bear - s.bull
           IN  lastEval.regimeAnalysis.confidence = Max(30, Min(90, 50 + gap))

\* C32, amended: with at least 5 qualifying tokens the confidence equals
\* clamp(50 + |bullScore - bearScore|, 30, 90) when the regime returned is bull or
\* bear, and max(30, 70 - |bullScore - bearScore|) when it is sideways.
C32_ConfidenceByRegime ==
    (lastEval # NoEval /\ evalIn.withMarket >= 5)
        => LET s == RegimeScores(evalIn)
               gap == IF s.bull > s.bear THEN s.bull - s.bear ELSE s.bear - s.bull
               r == lastEval.regimeAnalysis
           IN  r.confidence = IF r.regime = "sideways" THEN Max(30, 70 - gap)
                              ELSE Max(30, Min(90, 50 + gap))

\* a bull regime with a lead of 100 points, reported at the cap
C32_Witness ==
    /\ lastEval # NoEval
    /\ evalIn.withMarket = 5
    /\ RegimeScores(evalIn) = [bull |-> 100, bear |-> 0]
    /\ lastEval.regimeAnalysis = [regime |-> "bull", confidence |-> 90]

\* C39: the regime-adjusted signal threshold is never above the base threshold in
\* a bull regime and never below it in a bear regime, for every base threshold.
C39_ThresholdDirection ==
    lastEval # NoEval
        => /\ lastEval.regimeAnalysis.regime = "bull"
                  => lastEval.dynamicThreshold <= evalIn.SIGNAL_THRESHOLD
           /\ lastEval.regimeAnalysis.regime = "bear"
                  => lastEval.dynamicThreshold >= evalIn.SIGNAL_THRESHOLD

(***************************************************************************)
(* Claims about the trading loop                                           *)
(***************************************************************************)
\* C33: a fleet cycle that throws is caught by the loop, which goes to its sleep
\* and, still running, starts the next cycle: a crashed cycle never ends the loop.
C33_CrashedCycleContinues ==
    [][\A c \in 1..MaxLoops :
          /\ (task[c].pc = "cycle" /\ task'[c].pc # "cycle") => task'[c].pc = "sleep"
          /\ (task[c].pc = "sleep" /\ task[c].crashed /\ fleet.isRunning
                  /\ task'[c].pc # "sleep")
                 => task'[c].pc = "cycle" /\ fleet'.cycleCount = fleet.cycleCount + 1]_vars

\* a loop is in a cycle that it started after a crashed one
C33_Witness ==
    \E c \in 1..MaxLoops :
        task[c].pc = "cycle" /\ task[c].crashed /\ fleet.cycleCount >= 2

\* C34: after any sequence of startAgentLoop and stopAgentLoop calls at most one
\* loop is active, so two fleet cycles never run at the same time.
C34_OneLoop ==
    /\ Cardinality({c \in 1..MaxLoops : task[c].pc = "cycle"}) <= 1
    /\ fleet.isRunning
          => Cardinality({c \in 1..MaxLoops : task[c].pc \in {"sleep", "cycle"}}) <= 1

\* C35: every agent is always constructed with the same vault agent index, in fleet
\* cycles and in single-agent cycles, whichever other agents are active.
C35_StableVaultIndex ==
    \A x, y \in lastCall.constructed :
        x.agentId = y.agentId => x.vaultAgentId = y.vaultAgentId

(***************************************************************************)
(* Claims about the checkpoints of a position                              *)
(***************************************************************************)
\* C36: a position still open when a checkpoint time (15, 30 minutes after entry)
\* is reached has that checkpoint evaluated at its next holdings evaluation:
\* after an evaluation that found it 15 (30) minutes old or older and left it open,
\* its early (mid) checkpoint has been evaluated.
C36_CheckpointAtNextEvaluation ==
    lastCall.op = "checkMomentum"
        => \A h \in holdings :
              (h.agentId = lastCall.agentId /\ h.tokenAddress = lastCall.tokenAddress)
                 => /\ lastCall.holdMs >= Minutes(15) => h.earlyChecks >= 1
                    /\ lastCall.holdMs >= Minutes(30) => h.midChecks >= 1

\* C37: a position just opened starts with both checkpoint flags of its token clear
\* and a snapshot history of the buy alone, whatever happened to earlier positions
\* in the token.
C37_FreshMonitorAtBuy ==
    lastBuy.op = "buy"
        => /\ ~MapHas(monitor.twoMinCheckDone, lastBuy.tokenAddress)
           /\ ~MapHas(monitor.fiveMinCheckDone, lastBuy.tokenAddress)
           /\ MapHas(monitor.snapshots, lastBuy.tokenAddress)
           /\ Len(MapGet(monitor.snapshots, lastBuy.tokenAddress)) = 1

(***************************************************************************)
(* Claims about the cost of a position                                     *)
(***************************************************************************)
\* the cost basis on the Holding row of a position, nothing once the row is gone
CostBasisLeft(rows, agentId, tokenAddress) ==
    LET own == {h \in rows : h.agentId = agentId /\ h.tokenAddress = tokenAddress}
    IN  IF own = {} THEN 0 ELSE (CHOOSE h \in own : TRUE).costBasis

\* the step carried out a sell (partial or full) of the position it evaluated
SellCharged == "proportionalCost" \in DOMAIN lastEval

\* C38: over the lifetime of a position the costs charged to its sells add up to
\* exactly the cost basis recorded at its buy: every sell is charged exactly what
\* it takes off the cost basis the Holding row carried before it, and the full exit
\* is charged all that was left, so nothing is dropped and nothing counted twice.
C38_SellsAddUpToCostBasis ==
    [][SellCharged' =>
          lastEval'.proportionalCost
            + CostBasisLeft(holdings', lastEval'.in.agentId, lastEval'.in.tokenAddress)
          = CostBasisLeft(holdings, lastEval'.in.agentId, lastEval'.in.tokenAddress)]_vars

====
